---------------------------- MODULE Spec2Model ----------------------------
(***************************************************************************)
(* Model of the ACE playbook engine (src/ace_core.py): the on-disk store   *)
(* (playbook files, project registry, reflection logs), the process-wide   *)
(* lock _file_lock, and the public operations called by client threads.    *)
(*                                                                         *)
(* A playbook file is kept as the sequence of its lines, i.e. the value of *)
(* content.split("\n"); a text that ends with a newline therefore ends     *)
(* with one blank line.  A line is a record whose kind tells whether it is *)
(* a "## <name>" header, an entry line, a blank line or any other text.    *)
(* Entry contents are short sequences of one-character strings: letters   *)
(* and square brackets (no backslashes, newlines or blanks-only contents). *)
(* Line positions are 1-based (Python index + 1).                          *)
(***************************************************************************)
EXTENDS Integers, Sequences, FiniteSets, TLC

VARIABLES
    playbooks,    \* project id -> [exists, lines]: PLAYBOOKS_DIR/<id>.md
    registry,     \* [exists, projects]: PROJECTS_FILE, a sequence of [id, description]
    reflections,  \* project id -> sequence of records: REFLECTIONS_DIR/<id>.jsonl
    lock,         \* _file_lock: 0 when free, else the thread that holds it
    pc,           \* thread -> position in its current call
    op,           \* thread -> the call it is executing
    local,        \* thread -> local variables of add_entry between its read and its write
    result,       \* thread -> the value its call returned
    calls,        \* number of calls made so far
    store0,       \* the playbook files as they were before the first call
    unregistered  \* history: some add_entry targeted a project that was neither
                  \* "global" nor in the registry when the call read it

vars == <<playbooks, registry, reflections, lock, pc, op, local, result, calls, store0,
          unregistered>>

(***************************************************************************)
(* Bounds of the model.                                                    *)
(***************************************************************************)
NumThreads == 2      \* concurrent client threads
MaxCalls == 3        \* calls made by the sequential client

Threads == 1..NumThreads
Projects == {"global", "fin"}

(***************************************************************************)
(* Lines of a playbook file.                                               *)
(***************************************************************************)
NoContent == <<>>

Header(name) ==
    [kind |-> "header", name |-> name, pre |-> "", num |-> 0,
     helpful |-> 0, harmful |-> 0, tag |-> "", content |-> NoContent]

Blank ==
    [kind |-> "blank", name |-> "", pre |-> "", num |-> 0,
     helpful |-> 0, harmful |-> 0, tag |-> "", content |-> NoContent]

TextLine(text) ==
    [kind |-> "text", name |-> text, pre |-> "", num |-> 0,
     helpful |-> 0, harmful |-> 0, tag |-> "", content |-> NoContent]

Id(pre, num) == [pre |-> pre, num |-> num]

NoId == Id("", 0)

SECTIONS ==
    <<"STRATEGIES & INSIGHTS", "FORMULAS & CALCULATIONS",
      "COMMON MISTAKES TO AVOID", "DOMAIN KNOWLEDGE">>

SectionNames == {SECTIONS[i] : i \in 1..Len(SECTIONS)}

SECTION_PREFIXES ==
    [s \in SectionNames |->
        CASE s = "STRATEGIES & INSIGHTS" -> "str"
          [] s = "FORMULAS & CALCULATIONS" -> "cal"
          [] s = "COMMON MISTAKES TO AVOID" -> "mis"
          [] OTHER -> "dom"]

\* The least number that "{num:05d}" writes with more than five digits.
IdLimit == 100000

\* "{num:05d}" has exactly five digits, as \d{5} requires, iff num < 10^5.
FiveDigits(num) == num < IdLimit

\* _format_entry: the project marker is written only when one is given.
_format_entry(entry_id, helpful, harmful, content, project_marker) ==
    [kind |-> "entry", name |-> "", pre |-> entry_id.pre, num |-> entry_id.num,
     helpful |-> helpful, harmful |-> harmful, tag |-> project_marker,
     content |-> content]

NoEntry ==
    [ok |-> FALSE, id |-> NoId, helpful |-> 0, harmful |-> 0,
     project_id |-> "", content |-> NoContent]

\* _parse_entry: both patterns need a five-digit id and a non-empty content
\* after "::"; any other line is not an entry.
_parse_entry(line) ==
    IF line.kind = "entry" /\ FiveDigits(line.num) /\ line.content # NoContent
    THEN [ok |-> TRUE, id |-> Id(line.pre, line.num), helpful |-> line.helpful,
          harmful |-> line.harmful, project_id |-> line.tag,
          content |-> line.content]
    ELSE NoEntry

\* "## <section>" == line.strip()
IsHeaderOf(line, section) == line.kind = "header" /\ line.name = section

\* line.strip().startswith("## ")
IsAnyHeader(line) == line.kind = "header"

\* line.strip() is not empty
NonBlank(line) == line.kind # "blank"

(***************************************************************************)
(* The default global playbook (contents abbreviated to a few letters).    *)
(***************************************************************************)
DEFAULT_PLAYBOOK ==
    << Header("STRATEGIES & INSIGHTS"),
       _format_entry(Id("str", 1), 0, 0, <<"b", "s">>, ""),
       _format_entry(Id("str", 2), 0, 0, <<"v", "a">>, ""),
       Blank,
       Header("FORMULAS & CALCULATIONS"),
       _format_entry(Id("cal", 1), 0, 0, <<"r", "o">>, ""),
       Blank,
       Header("COMMON MISTAKES TO AVOID"),
       _format_entry(Id("mis", 1), 0, 0, <<"d", "a">>, ""),
       Blank,
       Header("DOMAIN KNOWLEDGE"),
       _format_entry(Id("dom", 1), 0, 0, <<"c", "w">>, ""),
       Blank >>

\* f"# Project: {project_id}\n\n"
EmptyProjectPlaybook(project_id) == <<TextLine(project_id), Blank, Blank>>

NoFile == [exists |-> FALSE, lines |-> <<>>]

File(lines) == [exists |-> TRUE, lines |-> lines]

(***************************************************************************)
(* Sequence helpers.                                                       *)
(***************************************************************************)
Max(a, b) == IF a >= b THEN a ELSE b

RECURSIVE SeqMax(_)
SeqMax(s) == IF s = <<>> THEN 0 ELSE Max(Head(s), SeqMax(Tail(s)))

RECURSIVE FlattenFrom(_, _)
FlattenFrom(ss, k) == IF k > Len(ss) THEN <<>> ELSE ss[k] \o FlattenFrom(ss, k + 1)

\* The members of a sequence of sequences, joined in order.
Flatten(ss) == FlattenFrom(ss, 1)

Range(s) == {s[i] : i \in DOMAIN s}

\* "kw in content": kw is a contiguous part of the content
Contains(content, kw) ==
    \E i \in 0..(Len(content) - Len(kw)) :
        \A k \in 1..Len(kw) : content[i + k] = kw[k]

\* All orders in which the members of a set can be listed.
Orders(S) ==
    {o \in [1..Cardinality(S) -> S] : \A i, j \in DOMAIN o : i # j => o[i] # o[j]}

(***************************************************************************)
(* Section Locator and ID Allocator.                                       *)
(***************************************************************************)
NotFound == -1

\* The loop of _get_section_content from line i on: start is the position of
\* the last line equal to the header seen so far, the scan ends at the first
\* other "## " line after it.
RECURSIVE SectionScan(_, _, _, _)
SectionScan(lines, section, i, start) ==
    IF i > Len(lines)
    THEN [start |-> start, end |-> IF start = NotFound THEN NotFound ELSE Len(lines) + 1]
    ELSE IF IsHeaderOf(lines[i], section)
         THEN SectionScan(lines, section, i + 1, i)
         ELSE IF start # NotFound /\ IsAnyHeader(lines[i])
              THEN [start |-> start, end |-> i]
              ELSE SectionScan(lines, section, i + 1, start)

\* _get_section_content: [start, end, lines] with lines = lines[start:end],
\* end exclusive; start = end = -1 and no lines when the header is absent.
_get_section_content(lines, section) ==
    LET r == SectionScan(lines, section, 1, NotFound)
    IN  [start |-> r.start, end |-> r.end,
         lines |-> IF r.start = NotFound THEN <<>>
                   ELSE SubSeq(lines, r.start, r.end - 1)]

\* A scan that takes the numbers of the ids of every prefix.
IdNumbersAnyPrefix(lines, prefix) ==
    LET hit(l) == l.kind = "entry" /\ FiveDigits(l.num)
        hits == SelectSeq(lines, hit)
    IN  [i \in DOMAIN hits |-> hits[i].num]

\* re.findall(rf"\[{prefix}-(\d{5})\]", content) as numbers
IdNumbers(lines, prefix) ==
    LET hit(l) == l.kind = "entry" /\ l.pre = prefix /\ FiveDigits(l.num)
        hits == SelectSeq(lines, hit)
    IN  [i \in DOMAIN hits |-> hits[i].num]

\* An allocator that counts the stored ids instead of taking their maximum.
_get_next_id_Count(prefix, project_ids, pb) ==
    LET found(p) == IF pb[p].exists THEN Len(IdNumbers(pb[p].lines, prefix)) ELSE 0
        RECURSIVE Sum(_)
        Sum(k) == IF k = 0 THEN 0 ELSE found(project_ids[k]) + Sum(k - 1)
    IN  Id(prefix, Sum(Len(project_ids)) + 1)

\* _get_next_id over the playbook files pb: absent files are skipped.
_get_next_id(prefix, project_ids, pb) ==
    LET found(p) == IF pb[p].exists THEN SeqMax(IdNumbers(pb[p].lines, prefix)) ELSE 0
        max_num == SeqMax([i \in DOMAIN project_ids |-> found(project_ids[i])])
    IN  Id(prefix, max_num + 1)

\* content.rstrip() as lines: trailing blank lines go; the empty text is one
\* empty line.
RECURSIVE DropTrailingBlanks(_)
DropTrailingBlanks(lines) ==
    IF lines = <<>> THEN <<>>
    ELSE IF NonBlank(lines[Len(lines)]) THEN lines
         ELSE DropTrailingBlanks(SubSeq(lines, 1, Len(lines) - 1))

RStrip(lines) ==
    LET kept == DropTrailingBlanks(lines)
    IN  IF kept = <<>> THEN <<Blank>> ELSE kept

\* lines.insert(at - 1, line): the new line becomes line number at.
InsertAt(lines, at, line) ==
    SubSeq(lines, 1, at - 1) \o <<line>> \o SubSeq(lines, at, Len(lines))

\* The loop "for i in range(end_idx - 1, start_idx, -1)" of add_entry: the
\* position after the last non-empty line below the header, else end.
InsertPosition(lines, start, end) ==
    LET filled == {i \in (start + 1)..(end - 1) : NonBlank(lines[i])}
    IN  IF filled = {} THEN end
        ELSE (CHOOSE i \in filled : \A j \in filled : j <= i) + 1

\* The playbook text add_entry writes for the text it read.
AddedContent(lines, section, new_entry) ==
    LET sc == _get_section_content(lines, section)
    IN  IF sc.start = NotFound
        THEN RStrip(lines) \o <<Blank, Header(section), new_entry, Blank>>
        ELSE InsertAt(lines, InsertPosition(lines, sc.start, sc.end), new_entry)

(***************************************************************************)
(* Store access: lazy creation of playbook files, the project registry.    *)
(***************************************************************************)
\* An _ensure_playbook that writes the default content over a global
\* playbook that has lost one of its default entries.
_ensure_playbook_Reseed(pb, project_id) ==
    IF pb[project_id].exists
    THEN IF project_id = "global"
            /\ \E i \in DOMAIN DEFAULT_PLAYBOOK :
                  /\ DEFAULT_PLAYBOOK[i].kind = "entry"
                  /\ \A j \in DOMAIN pb[project_id].lines :
                        pb[project_id].lines[j].kind = "entry" =>
                            pb[project_id].lines[j].content # DEFAULT_PLAYBOOK[i].content
         THEN [pb EXCEPT ![project_id] = File(DEFAULT_PLAYBOOK)]
         ELSE pb
    ELSE [pb EXCEPT ![project_id] =
            File(IF project_id = "global" THEN DEFAULT_PLAYBOOK
                 ELSE EmptyProjectPlaybook(project_id))]

\* _ensure_playbook on the playbook files pb
_ensure_playbook(pb, project_id) ==
    IF pb[project_id].exists THEN pb
    ELSE [pb EXCEPT ![project_id] =
            File(IF project_id = "global" THEN DEFAULT_PLAYBOOK
                 ELSE EmptyProjectPlaybook(project_id))]

\* _write_playbook_content on the playbook files pb
_write_playbook_content(pb, lines, project_id) ==
    [pb EXCEPT ![project_id] = File(lines)]

DefaultProjects == <<[id |-> "global", description |-> "Universal"]>>

\* _load_projects: the registry file's mapping, or the default mapping
_load_projects(reg) == IF reg.exists THEN reg.projects ELSE DefaultProjects

ProjectIds(projects) == [i \in DOMAIN projects |-> projects[i].id]

\* A search that looks at the global playbook only.
ExistingFilesGlobalOnly(pb) == {p \in {"global"} : pb[p].exists}

\* PLAYBOOKS_DIR.glob("*.md"): the existing playbook files
ExistingFiles(pb) == {p \in Projects : pb[p].exists}

(***************************************************************************)
(* Project Overlay: the body of read_playbook.                             *)
(***************************************************************************)
\* The first canonical section whose located lines hold a line equal to
\* this one (after strip); "" when there is none.
RECURSIVE SectionOfFrom(_, _, _)
SectionOfFrom(line, lines, k) ==
    IF k > Len(SECTIONS) THEN ""
    ELSE IF line \in Range(_get_section_content(lines, SECTIONS[k]).lines)
         THEN SECTIONS[k]
         ELSE SectionOfFrom(line, lines, k + 1)

SectionOf(line, lines) == SectionOfFrom(line, lines, 1)

\* The characters of a project id.
ProjectChars(project_id) ==
    IF project_id = "fin" THEN <<"f", "i", "n">>
    ELSE <<"g", "l", "o", "b", "a", "l">>

\* f"[{project_id}]"
MarkerText(project_id) == <<"[">> \o ProjectChars(project_id) \o <<"]">>

\* f"[{project_id}]" in line: the text is looked for in the whole line; in
\* an entry line it is there as the stored marker or as part of the content
\* (an id "[xxx-ddddd]" is never the marker of a project of the model).
HasMarker(line, project_id) ==
    /\ line.kind = "entry"
    /\ \/ line.tag = project_id
       \/ Contains(line.content, MarkerText(project_id))

\* The line read_playbook emits for an entry line of the project file.
Marked(line, project_id) ==
    IF ~HasMarker(line, project_id)
    THEN LET e == _parse_entry(line)
         IN  _format_entry(e.id, e.helpful, e.harmful, e.content, project_id)
    ELSE line

\* A merge that lists the entries of the project before the global ones.
MergedSectionProjectFirst(global_lines, project_lines, project_id, section) ==
    LET g(l) == _parse_entry(l).ok /\ SectionOf(l, global_lines) = section
        p(l) == _parse_entry(l).ok /\ SectionOf(l, project_lines) = section
        own == SelectSeq(project_lines, p)
    IN  [i \in DOMAIN own |-> Marked(own[i], project_id)] \o SelectSeq(global_lines, g)

\* sections[section] after both loops of read_playbook
MergedSection(global_lines, project_lines, project_id, section) ==
    LET g(l) == _parse_entry(l).ok /\ SectionOf(l, global_lines) = section
        p(l) == _parse_entry(l).ok /\ SectionOf(l, project_lines) = section
        own == SelectSeq(project_lines, p)
    IN  SelectSeq(global_lines, g) \o [i \in DOMAIN own |-> Marked(own[i], project_id)]

\* "\n".join(output_lines) as lines; the empty text is one empty line.
MergedPlaybook(global_lines, project_lines, project_id) ==
    LET part(k) ==
            LET es == MergedSection(global_lines, project_lines, project_id, SECTIONS[k])
            IN  IF es = <<>> THEN <<>> ELSE <<Header(SECTIONS[k])>> \o es \o <<Blank>>
        out == Flatten([k \in DOMAIN SECTIONS |-> part(k)])
    IN  IF out = <<>> THEN <<Blank>> ELSE out

\* A read_playbook that saves the merged text as the playbook of the project.
ReadPlaybookFilesWriteBack(pb, project_id) ==
    LET after == _ensure_playbook(_ensure_playbook(pb, "global"), project_id)
    IN  IF project_id = "global" THEN after
        ELSE _write_playbook_content(
                after,
                MergedPlaybook(after["global"].lines, after[project_id].lines, project_id),
                project_id)

\* The playbook files after the body of read_playbook (lazy creation only).
ReadPlaybookFiles(pb, project_id) ==
    IF project_id = "global" THEN _ensure_playbook(pb, "global")
    ELSE _ensure_playbook(_ensure_playbook(pb, "global"), project_id)

\* The text read_playbook returns.
ReadPlaybookText(pb, project_id) ==
    LET after == ReadPlaybookFiles(pb, project_id)
    IN  IF project_id = "global" THEN after["global"].lines
        ELSE MergedPlaybook(after["global"].lines, after[project_id].lines, project_id)

(***************************************************************************)
(* Similarity Matcher: difflib.SequenceMatcher(None, a.lower(), b.lower()) *)
(***************************************************************************)
LowerChar(c) == IF c = "A" THEN "a" ELSE IF c = "B" THEN "b" ELSE c

Lower(str) == [i \in DOMAIN str |-> LowerChar(str[i])]

\* Length of the common run of a from i and b from j, inside a[..ahi], b[..bhi].
RECURSIVE RunLength(_, _, _, _, _, _)
RunLength(a, b, i, j, ahi, bhi) ==
    IF i > ahi \/ j > bhi \/ a[i] # b[j] THEN 0
    ELSE 1 + RunLength(a, b, i + 1, j + 1, ahi, bhi)

\* find_longest_match in a[alo..ahi], b[blo..bhi]: a longest common block,
\* the one starting earliest in a and, among those, earliest in b.
find_longest_match(a, b, alo, ahi, blo, bhi) ==
    LET blocks == {[i |-> st[1], j |-> st[2],
                    size |-> RunLength(a, b, st[1], st[2], ahi, bhi)] :
                        st \in (alo..ahi) \X (blo..bhi)}
        better(m, o) ==
            \/ m.size > o.size
            \/ m.size = o.size /\ (m.i < o.i \/ (m.i = o.i /\ m.j <= o.j))
    IN  IF \A m \in blocks : m.size = 0 THEN [i |-> alo, j |-> blo, size |-> 0]
        ELSE CHOOSE m \in blocks : \A o \in blocks : better(m, o)

\* Sum of the sizes of get_matching_blocks: the longest block, then the
\* pieces to its left and to its right.
RECURSIVE MatchedChars(_, _, _, _, _, _)
MatchedChars(a, b, alo, ahi, blo, bhi) ==
    LET around(m) ==
            IF m.size = 0 THEN 0
            ELSE m.size
                 + MatchedChars(a, b, alo, m.i - 1, blo, m.j - 1)
                 + MatchedChars(a, b, m.i + m.size, ahi, m.j + m.size, bhi)
    IN  CHOOSE n \in {around(m) : m \in {find_longest_match(a, b, alo, ahi, blo, bhi)}} : TRUE

\* _similarity as the fraction num / den = 2.0 * matches / length; two empty
\* strings have ratio 1.0, written 1 / 1.
_similarity(a, b) ==
    LET la == Lower(a)
        lb == Lower(b)
    IN  IF Len(a) + Len(b) = 0 THEN [num |-> 1, den |-> 1]
        ELSE [num |-> 2 * MatchedChars(la, lb, 1, Len(la), 1, Len(lb)),
              den |-> Len(a) + Len(b)]

IsDuplicateNonStrict(sim) == 10 * sim.num >= 8 * sim.den

\* sim > 0.8
IsDuplicate(sim) == 10 * sim.num > 8 * sim.den

(***************************************************************************)
(* update_counters, remove_entry and curate_playbook on one file's lines.  *)
(***************************************************************************)
\* The pattern of update_counters matches at this line.
UpdateMatches(line, entry_id) ==
    line.kind = "entry" /\ Id(line.pre, line.num) = entry_id /\ line.content # NoContent

\* The pattern of remove_entry matches this line.
RemoveMatches(line, entry_id) ==
    line.kind = "entry" /\ Id(line.pre, line.num) = entry_id

\* "match" of update_counters (re.search) or "found" of remove_entry.
HasMatch(lines, entry_id, remove) ==
    \E i \in DOMAIN lines :
        IF remove THEN RemoveMatches(lines[i], entry_id)
        ELSE UpdateMatches(lines[i], entry_id)

\* re.search: the first line the pattern matches
FirstMatch(lines, entry_id) ==
    lines[CHOOSE i \in DOMAIN lines :
            /\ UpdateMatches(lines[i], entry_id)
            /\ \A j \in 1..(i - 1) : ~UpdateMatches(lines[j], entry_id)]

ClampNoFloor(old, delta) == old + delta

\* Counters never go below zero: max(0, old + delta)
Clamp(old, delta) == Max(0, old + delta)

\* re.sub(pattern, new_entry, content): every match becomes new_entry,
\* which is built from the first match and carries no project marker.
UpdatedLines(lines, entry_id, helpful_delta, harmful_delta) ==
    LET m == FirstMatch(lines, entry_id)
        new_entry == _format_entry(entry_id, Clamp(m.helpful, helpful_delta),
                                   Clamp(m.harmful, harmful_delta), m.content, "")
    IN  [i \in DOMAIN lines |->
            IF UpdateMatches(lines[i], entry_id) THEN new_entry ELSE lines[i]]

\* new_lines of remove_entry
RemovedLines(lines, entry_id) ==
    LET keep(l) == ~RemoveMatches(l, entry_id)
    IN  SelectSeq(lines, keep)

\* The first file, in the order the directory lists them, that has a match.
FirstFileWith(order, pb, entry_id, remove) ==
    LET hits == {i \in DOMAIN order : HasMatch(pb[order[i]].lines, entry_id, remove)}
    IN  IF hits = {} THEN 0 ELSE CHOOSE i \in hits : \A j \in hits : i <= j

IsHarmfulNonStrict(entry, harmful_threshold) ==
    entry.harmful >= entry.helpful + harmful_threshold

\* Harmful pruning: entry["harmful"] > entry["helpful"] + harmful_threshold
IsHarmful(entry, harmful_threshold) ==
    entry.harmful > entry.helpful + harmful_threshold

\* A line curate_playbook drops.
Pruned(line, harmful_threshold) ==
    _parse_entry(line).ok /\ IsHarmful(_parse_entry(line), harmful_threshold)

CuratedLinesEntriesOnly(lines, harmful_threshold) ==
    LET keep(l) == l.kind \in {"header", "entry"} /\ ~Pruned(l, harmful_threshold)
    IN  SelectSeq(lines, keep)

\* new_lines of curate_playbook for one file
CuratedLines(lines, harmful_threshold) ==
    LET keep(l) == ~Pruned(l, harmful_threshold)
    IN  SelectSeq(lines, keep)

\* The ids appended to total_removed for one file
RemovedIds(lines, harmful_threshold) ==
    LET gone(l) == Pruned(l, harmful_threshold)
        ls == SelectSeq(lines, gone)
    IN  [i \in DOMAIN ls |-> _parse_entry(ls[i]).id]

\* The entries appended to all_entries for one file
KeptEntries(lines, harmful_threshold) ==
    LET kept(l) == _parse_entry(l).ok /\ ~Pruned(l, harmful_threshold)
        ls == SelectSeq(lines, kept)
    IN  [i \in DOMAIN ls |-> _parse_entry(ls[i])]

CuratedProjectsAll(pb, project_id, order) == order

\* The projects curate_playbook walks: the one given (skipped if it has no
\* file), else every existing file in directory order.
CuratedProjects(pb, project_id, order) ==
    IF project_id # "" THEN (IF pb[project_id].exists THEN <<project_id>> ELSE <<>>)
    ELSE order

\* The duplicate pairs (i < j in all_entries, similarity > 0.8), in the order
\* of the nested loops.
Duplicates(all_entries) ==
    LET n == Len(all_entries)
        pair(i, j) ==
            LET sim == _similarity(all_entries[i].content, all_entries[j].content)
            IN  IF IsDuplicate(sim)
                THEN <<[a |-> all_entries[i].id, b |-> all_entries[j].id, sim |-> sim]>>
                ELSE <<>>
        row(i) == Flatten([d \in 1..(n - i) |-> pair(i, i + d)])
    IN  Flatten([i \in 1..n |-> row(i)])

\* matches of search_playbook over the merged text; query.lower().split()
\* is the sequence keywords
SearchMatches(merged, keywords) ==
    LET hit(l) ==
            /\ _parse_entry(l).ok
            /\ \E k \in DOMAIN keywords :
                    Contains(Lower(_parse_entry(l).content), Lower(keywords[k]))
    IN  SelectSeq(merged, hit)

(***************************************************************************)
(* Calls and results.                                                      *)
(***************************************************************************)
NoCall ==
    [name |-> "", section |-> "", content |-> NoContent, project_id |-> "",
     entry_id |-> NoId, helpful_delta |-> 0, harmful_delta |-> 0,
     harmful_threshold |-> 0, query |-> <<>>, description |-> ""]

CallReadPlaybook(p) == [NoCall EXCEPT !.name = "read_playbook", !.project_id = p]

CallGetSection(s, p) ==
    [NoCall EXCEPT !.name = "get_section", !.section = s, !.project_id = p]

CallAddEntry(s, c, p) ==
    [NoCall EXCEPT !.name = "add_entry", !.section = s, !.content = c, !.project_id = p]

CallUpdateCounters(id, dh, dm) ==
    [NoCall EXCEPT !.name = "update_counters", !.entry_id = id,
                   !.helpful_delta = dh, !.harmful_delta = dm]

CallRemoveEntry(id) == [NoCall EXCEPT !.name = "remove_entry", !.entry_id = id]

CallLogReflection(p) == [NoCall EXCEPT !.name = "log_reflection", !.project_id = p]

\* project_id "" stands for None (and for any falsy project_id).
CallCuratePlaybook(p, t) ==
    [NoCall EXCEPT !.name = "curate_playbook", !.project_id = p, !.harmful_threshold = t]

CallSearchPlaybook(q, p) ==
    [NoCall EXCEPT !.name = "search_playbook", !.query = q, !.project_id = p]

CallListProjects == [NoCall EXCEPT !.name = "list_projects"]

CallCreateProject(p, d) ==
    [NoCall EXCEPT !.name = "create_project", !.project_id = p, !.description = d]

NoResult ==
    [kind |-> "", id |-> NoId, old |-> <<>>, new |-> <<>>, ids |-> <<>>,
     dups |-> <<>>, more |-> 0, lines |-> <<>>]

Returned(kind) == [NoResult EXCEPT !.kind = kind]

NoLocal == [new_id |-> NoId, lines |-> <<>>]

\* The number of duplicate pairs shown in the result of curate_playbook.
MaxShown == 5

FirstN(seq, n) == SubSeq(seq, 1, IF Len(seq) < n THEN Len(seq) ELSE n)

(***************************************************************************)
(* The calls the clients make.                                             *)
(***************************************************************************)
\* The contents the clients add: ContentA and ContentB have similarity
\* exactly 0.8 (8 of 10 characters match, case ignored); ContentC, which the
\* populated store holds, has similarity 10/11 to ContentA and 8/11 to
\* ContentB.
ContentA == <<"a", "b", "c", "d", "e">>
ContentB == <<"A", "b", "c", "d", "f">>
ContentC == <<"a", "b", "c", "d", "e", "g">>
\* The content "[fin]": the text of a project marker.
ContentM == <<"[", "f", "i", "n", "]">>
Contents == {ContentA, ContentB}

InputSections == {"STRATEGIES & INSIGHTS", "DOMAIN KNOWLEDGE", "INVALID"}

InputIds == {Id("str", 1), Id("str", 3), Id("dom", 1), Id("str", 9)}

InputDeltas == {<<1, 0>>, <<0, 1>>, <<0, 3>>, <<-1000, -2>>}

InputThresholds == {0, 3}

InputQueries == {<<<<"a">>>>, <<<<"z">>, <<"W">>>>}

SeqCalls ==
    {CallReadPlaybook(p) : p \in Projects}
    \cup {CallGetSection(s, p) : s \in {"STRATEGIES & INSIGHTS", "INVALID"}, p \in Projects}
    \cup {CallAddEntry(s, c, p) : s \in InputSections, c \in Contents, p \in Projects}
    \cup {CallAddEntry("STRATEGIES & INSIGHTS", ContentM, "fin")}
    \cup {CallUpdateCounters(id, d[1], d[2]) : id \in InputIds, d \in InputDeltas}
    \cup {CallRemoveEntry(id) : id \in InputIds \cup {Id("str", 5)}}
    \cup {CallLogReflection(p) : p \in Projects}
    \cup {CallCuratePlaybook(p, t) : p \in Projects \cup {""}, t \in InputThresholds}
    \cup {CallSearchPlaybook(q, p) : q \in InputQueries, p \in Projects}
    \cup {CallListProjects}
    \cup {CallCreateProject(p, d) : p \in Projects, d \in {"", "d"}}

ConcCalls ==
    {CallAddEntry("STRATEGIES & INSIGHTS", c, "global") : c \in Contents}
    \cup {CallAddEntry("STRATEGIES & INSIGHTS", ContentA, "fin"),
          CallAddEntry("INVALID", ContentA, "global"),
          CallReadPlaybook("global"), CallReadPlaybook("fin"),
          CallGetSection("STRATEGIES & INSIGHTS", "global"),
          CallSearchPlaybook(<<<<"a">>>>, "global"),
          CallUpdateCounters(Id("str", 1), 1, 0),
          CallRemoveEntry(Id("str", 1)),
          CallLogReflection("global"),
          CallCuratePlaybook("", 0),
          CallListProjects,
          CallCreateProject("fin", "")}

(***************************************************************************)
(* Initial states: a fresh home directory (nothing exists yet), or a store *)
(* left by an earlier run: read_playbook(), create_project("fin"),         *)
(* add_entry("STRATEGIES & INSIGHTS", "abcde", "fin"),                     *)
(* add_entry("STRATEGIES & INSIGHTS", "abcdeg"),                           *)
(* add_entry("STRATEGIES & INSIGHTS", "abcde"),                            *)
(* update_counters("str-00003", 0, 1), update_counters("str-00004", 0, 1), *)
(* update_counters("str-00001", 0, 1), update_counters("str-00001", 0, 3). *)
(***************************************************************************)
FreshStore ==
    [playbooks |-> [p \in Projects |-> NoFile],
     registry |-> [exists |-> FALSE, projects |-> <<>>]]

PopulatedStore ==
    [playbooks |->
        [p \in Projects |->
            IF p = "global"
            THEN File(<<DEFAULT_PLAYBOOK[1],
                        _format_entry(Id("str", 1), 0, 4, <<"b", "s">>, ""),
                        DEFAULT_PLAYBOOK[3],
                        _format_entry(Id("str", 4), 0, 1, ContentC, ""),
                        _format_entry(Id("str", 5), 0, 0, ContentA, "")>>
                      \o SubSeq(DEFAULT_PLAYBOOK, 4, Len(DEFAULT_PLAYBOOK)))
            ELSE File(<<TextLine("fin"), Blank, Header("STRATEGIES & INSIGHTS"),
                        _format_entry(Id("str", 3), 0, 1, ContentA, ""), Blank>>)],
     registry |->
        [exists |-> TRUE,
         projects |-> DefaultProjects \o <<[id |-> "fin", description |-> ""]>>]]

InitStores == {FreshStore, PopulatedStore}

Init ==
    /\ \E st \in InitStores :
          /\ playbooks = st.playbooks
          /\ registry = st.registry
          /\ store0 = st.playbooks
    /\ reflections = [p \in Projects |-> <<>>]
    /\ lock = 0
    /\ pc = [t \in Threads |-> "idle"]
    /\ op = [t \in Threads |-> NoCall]
    /\ local = [t \in Threads |-> NoLocal]
    /\ result = [t \in Threads |-> NoResult]
    /\ calls = 0
    /\ unregistered = FALSE

(***************************************************************************)
(* The guard.                                                              *)
(***************************************************************************)
CanAcquireAlways(t) == TRUE

\* threading.Lock is not reentrant: acquire succeeds only on a free lock,
\* whoever asks.
CanAcquire(t) == lock = 0

\* The operations whose guarded body calls read_playbook, which takes the
\* guard itself.
CallsReadPlaybookInside(name) == name \in {"get_section", "search_playbook"}

\* A thread returns: its result is set, and the guard is released when the
\* outermost "with _file_lock" block is left.
Finish(t, res) ==
    /\ result' = [result EXCEPT ![t] = res]
    /\ pc' = [pc EXCEPT ![t] = "done"]
    /\ lock' = 0

(***************************************************************************)
(* Steps of a client thread.                                               *)
(***************************************************************************)
\* A call that checks the section name after the playbook file of the
\* project has been read, and so created when absent.
CallChecksLate(t, c) ==
    /\ pc[t] = "idle"
    /\ op' = [op EXCEPT ![t] = c]
    /\ calls' = calls + 1
    /\ IF c.name \in {"add_entry", "get_section"} /\ c.section \notin SectionNames
       THEN /\ pc' = [pc EXCEPT ![t] = "done"]
            /\ result' = [result EXCEPT ![t] = Returned("invalid_section")]
            /\ playbooks' = _ensure_playbook(playbooks, c.project_id)
       ELSE /\ pc' = [pc EXCEPT ![t] = "acquire"]
            /\ UNCHANGED <<result, playbooks>>
    /\ UNCHANGED <<registry, reflections, lock, local, store0, unregistered>>

\* A thread calls an operation; add_entry and get_section check the section
\* name before they take the guard.
Call(t, c) ==
    /\ pc[t] = "idle"
    /\ op' = [op EXCEPT ![t] = c]
    /\ calls' = calls + 1
    /\ IF c.name \in {"add_entry", "get_section"} /\ c.section \notin SectionNames
       THEN /\ pc' = [pc EXCEPT ![t] = "done"]
            /\ result' = [result EXCEPT ![t] = Returned("invalid_section")]
       ELSE /\ pc' = [pc EXCEPT ![t] = "acquire"]
            /\ UNCHANGED result
    /\ UNCHANGED <<playbooks, registry, reflections, lock, local, store0, unregistered>>

\* "with _file_lock:" of the operation, or of the read_playbook it calls.
Acquire(t) ==
    /\ pc[t] \in {"acquire", "nested"}
    /\ CanAcquire(t)
    /\ lock' = t
    /\ pc' = [pc EXCEPT ![t] =
                IF pc[t] = "acquire" /\ CallsReadPlaybookInside(op[t].name)
                THEN "nested" ELSE "body"]
    /\ UNCHANGED <<playbooks, registry, reflections, op, local, result, calls, store0, unregistered>>

\* The body of read_playbook, called directly or by get_section and
\* search_playbook, and what the caller makes of the merged text.
ReadPlaybook(t) ==
    /\ pc[t] = "body"
    /\ op[t].name \in {"read_playbook", "get_section", "search_playbook"}
    /\ playbooks' = ReadPlaybookFiles(playbooks, op[t].project_id)
    /\ LET merged == ReadPlaybookText(playbooks, op[t].project_id)
           section_lines == _get_section_content(merged, op[t].section).lines
           matches == SearchMatches(merged, op[t].query)
       IN  Finish(t,
             CASE op[t].name = "read_playbook" ->
                    [Returned("playbook") EXCEPT !.lines = merged]
               [] op[t].name = "get_section" ->
                    IF section_lines = <<>> THEN Returned("section_not_found")
                    ELSE [Returned("section") EXCEPT !.lines = section_lines]
               [] OTHER ->
                    IF matches = <<>> THEN Returned("no_matches")
                    ELSE [Returned("found") EXCEPT !.lines = matches])
    /\ UNCHANGED <<registry, reflections, op, local, calls, store0, unregistered>>

\* add_entry, first half: allocate the id over the registered projects, then
\* read the project's playbook (created on the spot when absent).
AddEntryRead(t) ==
    /\ pc[t] = "body"
    /\ op[t].name = "add_entry"
    /\ LET all_projects == ProjectIds(_load_projects(registry))
           prefix == SECTION_PREFIXES[op[t].section]
           new_id == _get_next_id(prefix, all_projects, playbooks)
           after == _ensure_playbook(playbooks, op[t].project_id)
       IN  /\ playbooks' = after
           /\ local' = [local EXCEPT ![t] =
                          [new_id |-> new_id, lines |-> after[op[t].project_id].lines]]
    /\ pc' = [pc EXCEPT ![t] = "write"]
    /\ unregistered' =
         (unregistered \/ op[t].project_id \notin
                            Range(ProjectIds(_load_projects(registry))) \cup {"global"})
    /\ UNCHANGED <<registry, reflections, lock, op, result, calls, store0>>

\* add_entry, second half: insert the new line into the text read and write
\* the file.
AddEntryWrite(t) ==
    /\ pc[t] = "write"
    /\ LET new_entry == _format_entry(local[t].new_id, 0, 0, op[t].content, "")
           written == AddedContent(local[t].lines, op[t].section, new_entry)
       IN  playbooks' = _write_playbook_content(playbooks, written, op[t].project_id)
    /\ Finish(t, [Returned("added") EXCEPT !.id = local[t].new_id])
    /\ UNCHANGED <<registry, reflections, op, local, calls, store0, unregistered>>

\* update_counters: the files are searched in directory order; the first one
\* with a match is rewritten.
UpdateCounters(t) ==
    /\ pc[t] = "body"
    /\ op[t].name = "update_counters"
    /\ \E order \in Orders(ExistingFiles(playbooks)) :
         LET k == FirstFileWith(order, playbooks, op[t].entry_id, FALSE)
             lines == playbooks[order[k]].lines
             m == FirstMatch(lines, op[t].entry_id)
         IN  IF k = 0
             THEN /\ UNCHANGED playbooks
                  /\ Finish(t, Returned("not_found"))
             ELSE /\ playbooks' = _write_playbook_content(playbooks,
                                     UpdatedLines(lines, op[t].entry_id,
                                                  op[t].helpful_delta, op[t].harmful_delta),
                                     order[k])
                  /\ Finish(t, [Returned("updated") EXCEPT
                                  !.id = op[t].entry_id,
                                  !.old = <<m.helpful, m.harmful>>,
                                  !.new = <<Clamp(m.helpful, op[t].helpful_delta),
                                            Clamp(m.harmful, op[t].harmful_delta)>>])
    /\ UNCHANGED <<registry, reflections, op, local, calls, store0, unregistered>>

\* remove_entry: the first file, in directory order, with a matching line
\* loses every matching line.
RemoveEntry(t) ==
    /\ pc[t] = "body"
    /\ op[t].name = "remove_entry"
    /\ \E order \in Orders(ExistingFiles(playbooks)) :
         LET k == FirstFileWith(order, playbooks, op[t].entry_id, TRUE)
         IN  IF k = 0
             THEN /\ UNCHANGED playbooks
                  /\ Finish(t, Returned("not_found"))
             ELSE /\ playbooks' = _write_playbook_content(playbooks,
                                     RemovedLines(playbooks[order[k]].lines, op[t].entry_id),
                                     order[k])
                  /\ Finish(t, [Returned("removed") EXCEPT !.id = op[t].entry_id])
    /\ UNCHANGED <<registry, reflections, op, local, calls, store0, unregistered>>

\* log_reflection opening the log to write, not to append.
LogReflectionRewrite(t) ==
    /\ pc[t] = "body"
    /\ op[t].name = "log_reflection"
    /\ reflections' = [reflections EXCEPT ![op[t].project_id] =
                         <<[timestamp |-> calls, outcome |-> "success"]>>]
    /\ Finish(t, Returned("logged"))
    /\ UNCHANGED <<playbooks, registry, op, local, calls, store0, unregistered>>

\* log_reflection: one record is appended to the project's log; the number
\* of calls made so far stands for the timestamp.
LogReflection(t) ==
    /\ pc[t] = "body"
    /\ op[t].name = "log_reflection"
    /\ reflections' = [reflections EXCEPT ![op[t].project_id] =
                         Append(@, [timestamp |-> calls, outcome |-> "success"])]
    /\ Finish(t, Returned("logged"))
    /\ UNCHANGED <<playbooks, registry, op, local, calls, store0, unregistered>>

\* The playbook files after curate_playbook has walked the projects projs:
\* each is rewritten without its pruned lines.
RECURSIVE CuratedFiles(_, _, _)
CuratedFiles(pb, projs, harmful_threshold) ==
    IF projs = <<>> THEN pb
    ELSE CuratedFiles(
            _write_playbook_content(pb, CuratedLines(pb[Head(projs)].lines, harmful_threshold),
                                    Head(projs)),
            Tail(projs), harmful_threshold)

\* curate_playbook (Policy A): prune, then report the duplicate pairs among
\* the entries kept.  The locals of the function are bound once each, as the
\* code computes them.
CuratePlaybook(t) ==
    /\ pc[t] = "body"
    /\ op[t].name = "curate_playbook"
    /\ \E order \in Orders(ExistingFiles(playbooks)) :
       \E projs \in {CuratedProjects(playbooks, op[t].project_id, order)} :
       \E thr \in {op[t].harmful_threshold} :
       \E total_removed \in
            {Flatten([i \in DOMAIN projs |-> RemovedIds(playbooks[projs[i]].lines, thr)])} :
       \E all_entries \in
            {Flatten([i \in DOMAIN projs |-> KeptEntries(playbooks[projs[i]].lines, thr)])} :
       \E duplicates \in {Duplicates(all_entries)} :
            /\ playbooks' = CuratedFiles(playbooks, projs, thr)
            /\ Finish(t, [Returned("curated") EXCEPT
                            !.ids = total_removed,
                            !.dups = FirstN(duplicates, MaxShown),
                            !.more = Max(0, Len(duplicates) - MaxShown)])
    /\ UNCHANGED <<registry, reflections, op, local, calls, store0, unregistered>>

\* list_projects
ListProjects(t) ==
    /\ pc[t] = "body"
    /\ op[t].name = "list_projects"
    /\ Finish(t, [Returned("projects") EXCEPT !.lines = _load_projects(registry)])
    /\ UNCHANGED <<playbooks, registry, reflections, op, local, calls, store0, unregistered>>

\* A create_project that registers the id again when it is already there.
CreateProjectAgain(t) ==
    /\ pc[t] = "body"
    /\ op[t].name = "create_project"
    /\ LET projects == _load_projects(registry)
           keep(pr) == pr.id # op[t].project_id
       IN  /\ registry' =
                 [exists |-> TRUE,
                  projects |-> Append(SelectSeq(projects, keep),
                                 [id |-> op[t].project_id,
                                  description |-> op[t].description])]
           /\ playbooks' = _ensure_playbook(playbooks, op[t].project_id)
           /\ Finish(t, IF \E i \in DOMAIN projects : projects[i].id = op[t].project_id
                        THEN Returned("exists") ELSE Returned("created"))
    /\ UNCHANGED <<reflections, op, local, calls, store0, unregistered>>

\* create_project: a new id is added to the registry file and its playbook
\* file is created.
CreateProject(t) ==
    /\ pc[t] = "body"
    /\ op[t].name = "create_project"
    /\ LET projects == _load_projects(registry)
       IN  IF \E i \in DOMAIN projects : projects[i].id = op[t].project_id
           THEN /\ UNCHANGED <<playbooks, registry>>
                /\ Finish(t, Returned("exists"))
           ELSE /\ registry' =
                      [exists |-> TRUE,
                       projects |-> Append(projects,
                                      [id |-> op[t].project_id,
                                       description |-> op[t].description])]
                /\ playbooks' = _ensure_playbook(playbooks, op[t].project_id)
                /\ Finish(t, Returned("created"))
    /\ UNCHANGED <<reflections, op, local, calls, store0, unregistered>>

\* The caller takes the result and is ready for its next call.
Return(t) ==
    /\ pc[t] = "done"
    /\ pc' = [pc EXCEPT ![t] = "idle"]
    /\ op' = [op EXCEPT ![t] = NoCall]
    /\ local' = [local EXCEPT ![t] = NoLocal]
    /\ result' = [result EXCEPT ![t] = NoResult]
    /\ UNCHANGED <<playbooks, registry, reflections, lock, calls, store0, unregistered>>

\* A step of a call in progress.
Step(t) ==
    \/ Acquire(t)
    \/ ReadPlaybook(t)
    \/ AddEntryRead(t)
    \/ AddEntryWrite(t)
    \/ UpdateCounters(t)
    \/ RemoveEntry(t)
    \/ LogReflection(t)
    \/ CuratePlaybook(t)
    \/ ListProjects(t)
    \/ CreateProject(t)

(***************************************************************************)
(* Spec: one client makes up to MaxCalls calls, one after the other.       *)
(***************************************************************************)
Next ==
    \/ \E c \in SeqCalls : calls < MaxCalls /\ Call(1, c)
    \/ Step(1)
    \/ Return(1)

Spec == Init /\ [][Next]_vars

(***************************************************************************)
(* SpecConc: NumThreads threads make one call each, concurrently.  The     *)
(* threads are interchangeable, so they make their calls in index order.   *)
(***************************************************************************)
InTurn(t) == \A u \in Threads : u < t => pc[u] # "idle"

NextConc ==
    \E t \in Threads :
        \/ \E c \in ConcCalls : InTurn(t) /\ Call(t, c)
        \/ Step(t)

SpecConc == Init /\ [][NextConc]_vars

\* Every thread that can take a step eventually takes one.
FairConc == SpecConc /\ \A t \in Threads : WF_vars(Step(t))

(***************************************************************************)
(* Claims.                                                                 *)
(***************************************************************************)
\* C1: every call of a public operation eventually acquires the guard,
\* completes and returns a result, leaving the guard released; get_section
\* with a valid section and search_playbook do not block forever.
C1_EveryCallReturns ==
    \A t \in Threads : (pc[t] # "idle") ~> (pc[t] = "done" /\ lock # t)

\* A thread is inside a guarded body: between taking the guard and leaving
\* the "with _file_lock" block.
InBody(t) == pc[t] \in {"nested", "body", "write"}

\* C2: mutual exclusion: at most one operation is inside its guarded body,
\* whatever projects the operations target, and that one holds the guard.
C2_MutualExclusion ==
    \A t, u \in Threads :
        /\ InBody(t) => lock = t
        /\ (InBody(t) /\ InBody(u)) => t = u

\* Witness of C2: one add_entry is between its read and its write while a
\* call on the other project waits for the guard.
C2_Witness ==
    \E t, u \in Threads :
        /\ pc[t] = "write"
        /\ pc[u] = "acquire"
        /\ op[u].project_id # op[t].project_id
        /\ op[u].project_id \in Projects

\* The highest number of an id with this prefix before the first call.
Max0(prefix) ==
    LET of(p) == IF store0[p].exists THEN SeqMax(IdNumbers(store0[p].lines, prefix)) ELSE 0
    IN  CHOOSE m \in {of(p) : p \in Projects} : \A p \in Projects : of(p) <= m

Callers == {t \in Threads : pc[t] # "idle"}

AllReturned == \A t \in Callers : pc[t] = "done"

\* Every call made so far is add_entry on this section of the global project.
OnlyAddsTo(section) ==
    \A t \in Callers :
        /\ op[t].name = "add_entry"
        /\ op[t].section = section
        /\ op[t].project_id = "global"

\* C3: once N concurrent add_entry calls on one section of the global
\* project have all completed, the ids they returned are pairwise distinct
\* and are exactly max0+1 .. max0+N.
C3_ContiguousIds ==
    (AllReturned /\ OnlyAddsTo("STRATEGIES & INSIGHTS"))
        => /\ \A t, u \in Callers : result[t].id = result[u].id => t = u
           /\ {result[t].id : t \in Callers}
                = {Id("str", Max0("str") + k) : k \in 1..Cardinality(Callers)}

\* The number of entry lines that carry this content.
CountContent(lines, content) ==
    Cardinality({i \in DOMAIN lines : lines[i].kind = "entry" /\ lines[i].content = content})

\* The completed add_entry calls of this content to this project.
AddedBy(p, content) ==
    {t \in Threads : /\ pc[t] = "done"
                     /\ result[t].kind = "added"
                     /\ op[t].project_id = p
                     /\ op[t].content = content}

\* C4: no lost update: while add_entry calls are the only calls, each
\* project's file holds one entry line (zero counters, the content given) for
\* every add_entry that has returned "Added entry".
C4_NoLostUpdate ==
    (\A t \in Callers : op[t].name = "add_entry") =>
        \A p \in Projects, c \in Contents :
            /\ CountContent(playbooks[p].lines, c)
                 = CountContent(store0[p].lines, c) + Cardinality(AddedBy(p, c))
            /\ \A t \in AddedBy(p, c) :
                 _format_entry(result[t].id, 0, 0, c, "") \in Range(playbooks[p].lines)

\* Witness of C4: every thread has added to the global project, two of
\* them the same content.
C4_Witness ==
    /\ \A t \in Threads : t \in AddedBy("global", op[t].content)
    /\ \E t, u \in Threads : t # u /\ op[t].content = op[u].content

\* The ids of the entries of a playbook text.
EntryIds(lines) == {_parse_entry(lines[i]).id : i \in {j \in DOMAIN lines : _parse_entry(lines[j]).ok}}

\* C5: the id add_entry assigns differs from the id of every entry already
\* present in the project's playbook file, for registered and unregistered
\* projects alike.
C5_NewIdNotInFile ==
    \A t \in Threads : pc[t] = "write" => local[t].new_id \notin EntryIds(local[t].lines)

\* The stored entry lines, each with its place.
StoredEntries ==
    UNION {{<<p, i>> : i \in {j \in DOMAIN playbooks[p].lines :
                                 _parse_entry(playbooks[p].lines[j]).ok}} : p \in Projects}

\* C6: if every add_entry targeted "global" or a project registered
\* beforehand, no two stored entries, in the same file or in different
\* files, have the same id.
C6_UniqueIds ==
    ~unregistered =>
        \A x, y \in StoredEntries :
            _parse_entry(playbooks[x[1]].lines[x[2]]).id
              = _parse_entry(playbooks[y[1]].lines[y[2]]).id => x = y

\* The entry lines of every playbook file.
AllEntryLines ==
    UNION {{playbooks[p].lines[i] : i \in {j \in DOMAIN playbooks[p].lines :
                                              playbooks[p].lines[j].kind = "entry"}} :
           p \in Projects}

\* C7: every stored entry has helpful >= 0 and harmful >= 0, and an
\* update_counters that found its entry reports old and new values with
\* new = max(0, old + delta) and has stored the new values.
C7_CountersFloored ==
    /\ \A l \in AllEntryLines : l.helpful >= 0 /\ l.harmful >= 0
    /\ \A t \in Threads :
         (pc[t] = "done" /\ result[t].kind = "updated") =>
            /\ result[t].new[1] = Max(0, result[t].old[1] + op[t].helpful_delta)
            /\ result[t].new[2] = Max(0, result[t].old[2] + op[t].harmful_delta)
            /\ \E l \in AllEntryLines :
                 /\ Id(l.pre, l.num) = op[t].entry_id
                 /\ <<l.helpful, l.harmful>> = result[t].new

\* Witness of C7: a large negative delta took a positive counter to zero.
C7_Witness ==
    \E t \in Threads :
        /\ pc[t] = "done"
        /\ result[t].kind = "updated"
        /\ op[t].helpful_delta = -1000
        /\ result[t].old[1] > 0
        /\ result[t].old[2] > 2
        /\ result[t].new[1] = 0

\* Thread t completes curate_playbook in this step.
CurateStep(t) ==
    pc[t] = "body" /\ op[t].name = "curate_playbook" /\ pc'[t] = "done"

\* The files curate_playbook scans: the project named, else every file.
Scanned(project_id) ==
    IF project_id = "" THEN ExistingFiles(playbooks)
    ELSE {project_id} \cap ExistingFiles(playbooks)

\* The entries of a file, by line number.
EntryLinesOf(p) ==
    {i \in DOMAIN playbooks[p].lines : _parse_entry(playbooks[p].lines[i]).ok}

Exceeds(l, thr) == l.harmful > l.helpful + thr

\* The places of the entries over the threshold in the scanned files.
OverThreshold(project_id, thr) ==
    UNION {{<<p, i>> : i \in {j \in EntryLinesOf(p) : Exceeds(playbooks[p].lines[j], thr)}} :
           p \in Scanned(project_id)}

\* C8: curate_playbook(project_id, t) removes an entry of a scanned file iff
\* harmful > helpful + t (equality is kept), and the ids listed as removed
\* are exactly the ids of the removed entries.
C8_PruneIffOverThreshold ==
    [][\A t \in Threads : CurateStep(t) =>
         LET thr == op[t].harmful_threshold
             over == OverThreshold(op[t].project_id, thr)
         IN  /\ \A p \in Scanned(op[t].project_id) : \A i \in EntryLinesOf(p) :
                  (playbooks[p].lines[i] \in Range(playbooks'[p].lines))
                      <=> ~Exceeds(playbooks[p].lines[i], thr)
             /\ Len(result'[t].ids) = Cardinality(over)
             /\ Range(result'[t].ids)
                  = {_parse_entry(playbooks[x[1]].lines[x[2]]).id : x \in over}
      ]_vars

\* Witness of C8: a curation with threshold 3 returned a removed id while an
\* entry with harmful = helpful + 3 is still stored.
C8_Witness ==
    \E t \in Threads :
        /\ pc[t] = "done"
        /\ op[t].name = "curate_playbook"
        /\ op[t].harmful_threshold = 3
        /\ result[t].ids # <<>>
        /\ \E p \in Scanned(op[t].project_id) : \E i \in EntryLinesOf(p) :
             playbooks[p].lines[i].harmful = playbooks[p].lines[i].helpful + 3

\* C9: Policy A is non-destructive: each scanned file is its previous text
\* with only the pruned entry lines deleted; all other lines stay verbatim
\* and in order, and no surviving entry is changed.
C9_OnlyPrunedLinesDeleted ==
    [][\A t \in Threads : CurateStep(t) =>
         \A p \in Scanned(op[t].project_id) :
            playbooks'[p].lines =
                SelectSeq(playbooks[p].lines,
                          LAMBDA l : ~(_parse_entry(l).ok
                                       /\ Exceeds(l, op[t].harmful_threshold)))
      ]_vars

\* Witness of C9: a curation removed an entry from a file that keeps a text
\* line, blank lines and a header.
C9_Witness ==
    \E t \in Threads : \E p \in Projects :
        /\ pc[t] = "done"
        /\ op[t].name = "curate_playbook"
        /\ op[t].project_id = p
        /\ result[t].ids # <<>>
        /\ \E i, j, k \in DOMAIN playbooks[p].lines :
             /\ playbooks[p].lines[i].kind = "text"
             /\ playbooks[p].lines[j].kind = "blank"
             /\ playbooks[p].lines[k].kind = "header"

\* C10: curate_playbook with a project_id reads and changes only that
\* project's file, and removes and reports only its entries; without a
\* project_id it prunes every existing playbook file.
C10_CurateScope ==
    [][\A t \in Threads : CurateStep(t) =>
         LET p == op[t].project_id
             thr == op[t].harmful_threshold
         IN  IF p # ""
             THEN /\ \A q \in Projects \ {p} : playbooks'[q] = playbooks[q]
                  /\ Range(result'[t].ids) \subseteq EntryIds(playbooks[p].lines)
                  /\ \A i \in DOMAIN result'[t].dups :
                       {result'[t].dups[i].a, result'[t].dups[i].b}
                           \subseteq EntryIds(playbooks[p].lines)
             ELSE \A q \in Projects :
                     /\ playbooks'[q].exists = playbooks[q].exists
                     /\ \A i \in DOMAIN playbooks'[q].lines :
                          ~(_parse_entry(playbooks'[q].lines[i]).ok
                            /\ Exceeds(playbooks'[q].lines[i], thr))
      ]_vars

\* Witness of C10: a curation of project fin removed an entry there while
\* the global file still holds an entry over the same threshold.
C10_Witness ==
    \E t \in Threads :
        /\ pc[t] = "done"
        /\ op[t].name = "curate_playbook"
        /\ op[t].project_id = "fin"
        /\ result[t].ids # <<>>
        /\ \E i \in DOMAIN playbooks["global"].lines :
             /\ _parse_entry(playbooks["global"].lines[i]).ok
             /\ Exceeds(playbooks["global"].lines[i], op[t].harmful_threshold)

\* The places of the entries of the files curate_playbook scans.
SurvivorsOf(project_id) ==
    UNION {{<<p, i>> : i \in EntryLinesOf(p)} : p \in Scanned(project_id)}

EntryAt(x) == _parse_entry(playbooks[x[1]].lines[x[2]])

\* The similarity of the contents of two stored entries.
SimOf(x, y) == _similarity(EntryAt(x).content, EntryAt(y).content)

\* The unordered pairs of distinct entries in the scanned files whose
\* contents are more than 0.8 similar.
SimilarPairs(project_id) ==
    {pr \in {{x, y} : x \in SurvivorsOf(project_id), y \in SurvivorsOf(project_id)} :
        /\ Cardinality(pr) = 2
        /\ \E x, y \in pr : x # y /\ 5 * SimOf(x, y).num > 4 * SimOf(x, y).den}

\* The reported pair d names the two entries of pr.
ShownAs(d, pr) ==
    \E x, y \in pr : x # y /\ EntryAt(x).id = d.a /\ EntryAt(y).id = d.b

CurateDone(t) == pc[t] = "done" /\ result[t].kind = "curated"

Greater(a, b) == a.num * b.den > b.num * a.den

\* The similarity of the two entries of a pair.
PairSim(pr) ==
    CHOOSE sim \in {SimOf(xy[1], xy[2]) : xy \in {z \in pr \X pr : z[1] # z[2]}} : TRUE

Min(a, b) == IF a <= b THEN a ELSE b

\* C12: with more than five duplicate pairs found, the five shown are the
\* five of highest similarity and the remainder stated is total - 5; with
\* five or fewer, all are shown and no remainder is stated.  (For every
\* similarity s, as many pairs above s are shown as exist, up to five.)
C12_ShowsHighest ==
    \A t \in Threads : CurateDone(t) =>
        LET Q == SimilarPairs(op[t].project_id)
            dups == result[t].dups
        IN  /\ Len(dups) = Min(MaxShown, Cardinality(Q))
            /\ result[t].more = Max(0, Cardinality(Q) - MaxShown)
            /\ \A pr \in Q :
                  Cardinality({i \in DOMAIN dups : Greater(dups[i].sim, PairSim(pr))})
                    = Min(MaxShown, Cardinality({q \in Q : Greater(PairSim(q), PairSim(pr))}))

\* The numbers of the ids with this prefix in the existing playbook files of
\* the registered projects.
StoredNumbers(pb, reg, prefix) ==
    UNION {{pb[p].lines[i].num :
               i \in {j \in DOMAIN pb[p].lines :
                         pb[p].lines[j].kind = "entry" /\ pb[p].lines[j].pre = prefix}} :
           p \in Range(ProjectIds(_load_projects(reg))) \cap ExistingFiles(pb)}

Prefixes == {SECTION_PREFIXES[s] : s \in SectionNames}

HighestOf(S) == IF S = {} THEN 0 ELSE CHOOSE m \in S : \A n \in S : n <= m

\* The id add_entry would allocate for this prefix in the store pb, reg.
NextIdOf(pb, reg, prefix) == _get_next_id(prefix, ProjectIds(_load_projects(reg)), pb)

\* Thread t completes remove_entry or curate_playbook in this step.
RemovalStep(t) ==
    pc[t] = "body" /\ op[t].name \in {"remove_entry", "curate_playbook"} /\ pc'[t] = "done"

\* C13 as claimed: once the entry holding the highest number of a prefix is
\* removed (by remove_entry or by pruning), the next add_entry for that
\* section receives the id the removed entry had.
C13_RemovedMaxReused ==
    [][\A t \in Threads : RemovalStep(t) =>
         \A pre \in Prefixes :
            LET before == StoredNumbers(playbooks, registry, pre)
                after == StoredNumbers(playbooks', registry', pre)
            IN  (before # {} /\ HighestOf(before) \notin after)
                    => NextIdOf(playbooks', registry', pre) = Id(pre, HighestOf(before))
      ]_vars

\* C13 as amended: allocation is a scan.  add_entry assigns the number one
\* above the highest stored for the prefix; so after a removal the next id is
\* never above the one before, it is the removed entry's id when that entry
\* held the highest number and the highest number left is one below it, and
\* it is unchanged while an entry with the highest number is left.
C13_ScanNotCounter ==
    [][\A t \in Threads :
         /\ (pc[t] = "body" /\ pc'[t] = "write") =>
                local'[t].new_id =
                    Id(SECTION_PREFIXES[op[t].section],
                       HighestOf(StoredNumbers(playbooks, registry,
                                               SECTION_PREFIXES[op[t].section])) + 1)
         /\ RemovalStep(t) =>
                \A pre \in Prefixes :
                    LET before == StoredNumbers(playbooks, registry, pre)
                        after == StoredNumbers(playbooks', registry', pre)
                        next == NextIdOf(playbooks', registry', pre)
                    IN  /\ next.num <= NextIdOf(playbooks, registry, pre).num
                        /\ (before # {} /\ HighestOf(before) \notin after
                             /\ HighestOf(after) = HighestOf(before) - 1)
                                => next = Id(pre, HighestOf(before))
                        /\ HighestOf(before) \in after
                                => next = NextIdOf(playbooks, registry, pre)
      ]_vars

\* Witness of C13: add_entry returned the id of an entry of the initial
\* store that is no longer stored: the id was allocated again.
C13_Witness ==
    \E t \in Threads :
        /\ pc[t] = "done"
        /\ result[t].kind = "added"
        /\ \E p \in Projects : \E i \in DOMAIN store0[p].lines :
             /\ _parse_entry(store0[p].lines[i]).ok
             /\ _parse_entry(store0[p].lines[i]).id = result[t].id
             /\ \A q \in Projects : store0[p].lines[i] \notin Range(playbooks[q].lines)

(***************************************************************************)
(* The ID Allocator as a function: _get_next_id applied to a prefix and a  *)
(* list of scopes over stores a home directory can hold.                   *)
(***************************************************************************)
\* Playbook directories: nothing yet; the default global playbook alone; the
\* store left by the earlier run; a project playbook without a global one
\* (create_project then add_entry to the project on a fresh directory); the
\* files of TestGetNextId; a global playbook whose numbers reached the limit
\* of five digits.
AllocStores ==
    { FreshStore.playbooks,
      PopulatedStore.playbooks,
      [p \in Projects |-> IF p = "global" THEN File(DEFAULT_PLAYBOOK) ELSE NoFile],
      [p \in Projects |-> IF p = "global" THEN NoFile ELSE PopulatedStore.playbooks[p]],
      [p \in Projects |->
          IF p = "global" THEN File(<<_format_entry(Id("str", 5), 0, 0, ContentA, "")>>)
          ELSE NoFile],
      [p \in Projects |->
          IF p = "global" THEN File(<<_format_entry(Id("str", 3), 0, 0, ContentA, "")>>)
          ELSE File(<<_format_entry(Id("str", 10), 0, 0, ContentB, "")>>)],
      [p \in Projects |->
          IF p = "global"
          THEN File(<<DEFAULT_PLAYBOOK[1],
                      _format_entry(Id("str", IdLimit - 1), 0, 0, ContentA, ""),
                      _format_entry(Id("str", IdLimit), 0, 0, ContentB, "")>>
                    \o SubSeq(DEFAULT_PLAYBOOK, 4, Len(DEFAULT_PLAYBOOK)))
          ELSE File(EmptyProjectPlaybook(p))] }

\* The scopes _get_next_id is given: any list of project ids.
ScopeLists ==
    {<<>>, <<"global">>, <<"fin">>, <<"global", "fin">>, <<"fin", "global">>}

\* The section stands for its prefix; the scopes travel in the field query.
CallGetNextId(s, scopes) ==
    [NoCall EXCEPT !.name = "_get_next_id", !.section = s, !.query = scopes]

InitNextId ==
    /\ \E pb \in AllocStores : playbooks = pb /\ store0 = pb
    /\ registry = FreshStore.registry
    /\ reflections = [p \in Projects |-> <<>>]
    /\ lock = 0
    /\ pc = [t \in Threads |-> "idle"]
    /\ op = [t \in Threads |-> NoCall]
    /\ local = [t \in Threads |-> NoLocal]
    /\ result = [t \in Threads |-> NoResult]
    /\ calls = 0
    /\ unregistered = FALSE

\* One direct call of _get_next_id(prefix, *scopes); it reads the files only.
GetNextId(t) ==
    /\ pc[t] = "idle"
    /\ \E s \in SectionNames, scopes \in ScopeLists :
          /\ op' = [op EXCEPT ![t] = CallGetNextId(s, scopes)]
          /\ result' = [result EXCEPT ![t] =
                [Returned("next_id") EXCEPT
                    !.id = _get_next_id(SECTION_PREFIXES[s], scopes, playbooks)]]
    /\ pc' = [pc EXCEPT ![t] = "done"]
    /\ calls' = calls + 1
    /\ UNCHANGED <<playbooks, registry, reflections, lock, local, store0, unregistered>>

NextNextId == GetNextId(1)

SpecNextId == InitNextId /\ [][NextNextId]_vars

\* The numbers of the ids "<prefix>-<5 digits>" written in the existing
\* playbook files of the given scopes.
FoundNumbers(pb, scopes, prefix) ==
    UNION {{pb[p].lines[i].num :
               i \in {j \in DOMAIN pb[p].lines :
                         /\ pb[p].lines[j].kind = "entry"
                         /\ pb[p].lines[j].pre = prefix
                         /\ pb[p].lines[j].num < IdLimit}} :
           p \in Range(scopes) \cap ExistingFiles(pb)}

\* The store pb without the lines that carry an id of another prefix.
OnlyPrefix(pb, prefix) ==
    LET keep(l) == l.kind # "entry" \/ l.pre = prefix
    IN  [p \in Projects |-> [pb[p] EXCEPT !.lines = SelectSeq(pb[p].lines, keep)]]

GetNextIdDone(t) == pc[t] = "done" /\ op[t].name = "_get_next_id"

\* C14: _get_next_id(prefix, scopes...) returns the id with that prefix and
\* the number m + 1, m being the highest number of the ids with that prefix
\* found in the existing playbook files of the given scopes, 0 if none is
\* found: files that do not exist are skipped (and not created), and the ids
\* of other prefixes have no influence on the result.
C14_NextIdIsMaxPlusOne ==
    \A t \in Threads : GetNextIdDone(t) =>
        LET prefix == SECTION_PREFIXES[op[t].section]
            scopes == op[t].query
        IN  /\ result[t].id =
                 Id(prefix, HighestOf(FoundNumbers(playbooks, scopes, prefix)) + 1)
            /\ result[t].id = _get_next_id(prefix, scopes, OnlyPrefix(playbooks, prefix))
            /\ (\A i \in DOMAIN scopes : ~playbooks[scopes[i]].exists)
                    => result[t].id = Id(prefix, 1)
            /\ playbooks = store0

\* Witness of C14: a call over two scopes, one of them without a file, the
\* other holding ids of the prefix and of other prefixes, returned a number
\* above 1.
C14_Witness ==
    \E t \in Threads :
        /\ GetNextIdDone(t)
        /\ Len(op[t].query) = 2
        /\ \E i, j \in DOMAIN op[t].query :
             /\ ~playbooks[op[t].query[i]].exists
             /\ playbooks[op[t].query[j]].exists
             /\ \E k, l \in DOMAIN playbooks[op[t].query[j]].lines :
                  /\ playbooks[op[t].query[j]].lines[k].kind = "entry"
                  /\ playbooks[op[t].query[j]].lines[k].pre = result[t].id.pre
                  /\ playbooks[op[t].query[j]].lines[l].kind = "entry"
                  /\ playbooks[op[t].query[j]].lines[l].pre # result[t].id.pre
        /\ result[t].id.num > 1

(***************************************************************************)
(* Project Overlay: what read_playbook returns for a project.              *)
(***************************************************************************)
\* The name of the header line nearest above line i; "" when there is none.
HeaderAbove(lines, i) ==
    LET above == {j \in 1..(i - 1) : lines[j].kind = "header"}
    IN  IF above = {} THEN ""
        ELSE lines[CHOOSE j \in above : \A k \in above : k <= j].name

\* The entries stored under this section in a file, in the file's order.
StoredUnder(lines, section) ==
    LET at == {i \in DOMAIN lines :
                  lines[i].kind = "entry" /\ HeaderAbove(lines, i) = section}
        RECURSIVE From(_)
        From(i) == IF i > Len(lines) THEN <<>>
                   ELSE IF i \in at THEN <<lines[i]>> \o From(i + 1)
                   ELSE From(i + 1)
    IN  From(1)

Untagged(lines) == [i \in DOMAIN lines |-> [lines[i] EXCEPT !.tag = ""]]

\* The overlay of a global and a project file, section by section in the
\* canonical order, markers left aside.
OverlayOf(global_lines, project_lines) ==
    LET both(k) == StoredUnder(global_lines, SECTIONS[k])
                       \o StoredUnder(project_lines, SECTIONS[k])
        part(k) == IF both(k) = <<>> THEN <<>>
                   ELSE <<Header(SECTIONS[k])>> \o Untagged(both(k)) \o <<Blank>>
        out == Flatten([k \in DOMAIN SECTIONS |-> part(k)])
    IN  IF out = <<>> THEN <<Blank>> ELSE out

\* Thread t completed read_playbook(p) for a project p other than "global".
OverlayDone(t) ==
    /\ pc[t] = "done"
    /\ op[t].name = "read_playbook"
    /\ op[t].project_id # "global"
    /\ result[t].kind = "playbook"

\* C15: read_playbook(p) for p other than "global" returns, for each of the
\* four canonical sections in their order, the entries stored under that
\* section in the global file in their order, then those stored under it in
\* the file of p in their order; every entry is under the section it is
\* stored in, and a section without entries is not emitted.
C15_OverlayOrder ==
    \A t \in Threads : OverlayDone(t) =>
        Untagged(result[t].lines) =
            OverlayOf(playbooks["global"].lines, playbooks[op[t].project_id].lines)

\* Witness of C15: the overlay has a section with an entry of the global
\* file followed by one of the project file, and a canonical section that
\* holds no entry is left out.
C15_Witness ==
    \E t \in Threads :
        /\ OverlayDone(t)
        /\ \E k \in DOMAIN SECTIONS :
             /\ StoredUnder(playbooks["global"].lines, SECTIONS[k]) # <<>>
             /\ StoredUnder(playbooks[op[t].project_id].lines, SECTIONS[k]) # <<>>
        /\ \E k \in DOMAIN SECTIONS : Header(SECTIONS[k]) \notin Range(result[t].lines)

\* C16: in the result of read_playbook(p) for p other than "global", every
\* entry that comes from the file of p carries the marker [p] between its
\* counters and "::", whatever its content and whatever tag it has in the
\* file, and the entries that come from the global file are as stored, no
\* marker given to them.
C16_MarkerOnProjectEntries ==
    \A t \in Threads : OverlayDone(t) =>
        \A k \in DOMAIN SECTIONS :
            LET shown == StoredUnder(result[t].lines, SECTIONS[k])
                own == StoredUnder(playbooks[op[t].project_id].lines, SECTIONS[k])
                shared == StoredUnder(playbooks["global"].lines, SECTIONS[k])
            IN  /\ Len(shown) = Len(shared) + Len(own)
                /\ \A i \in DOMAIN shared : shown[i] = shared[i]
                /\ \A i \in DOMAIN own :
                      shown[Len(shared) + i] = [own[i] EXCEPT !.tag = op[t].project_id]

\* Thread t takes a step of a call of read_playbook (the call, the guard or
\* the body).
ReadPlaybookStep(t) ==
    op'[t].name = "read_playbook" /\ pc'[t] # pc[t] /\ pc'[t] # "idle"

\* C17: read_playbook is a read-only projection: for any project_id, every
\* playbook file that existed before the call has the same text after it
\* and the registry is the same; the merged text is written to no file (a
\* file the call creates holds the default text of its project).
C17_ReadOnly ==
    [][\A t \in Threads : ReadPlaybookStep(t) =>
          /\ registry' = registry
          /\ reflections' = reflections
          /\ \A p \in Projects :
                /\ playbooks[p].exists => playbooks'[p] = playbooks[p]
                /\ (~playbooks[p].exists /\ playbooks'[p].exists) =>
                      /\ p \in {"global", op[t].project_id}
                      /\ playbooks'[p].lines =
                            IF p = "global" THEN DEFAULT_PLAYBOOK
                            ELSE EmptyProjectPlaybook(p)
      ]_vars

\* Witness of C17: read_playbook returned a merged text that is the text of
\* no file, all files having existed before the call.
C17_Witness ==
    \E t \in Threads :
        /\ OverlayDone(t)
        /\ playbooks = store0
        /\ \A p \in Projects :
              playbooks[p].exists /\ playbooks[p].lines # result[t].lines

\* The positions of the entry lines with this id in a file.
LinesWithId(lines, entry_id) ==
    {i \in DOMAIN lines :
        lines[i].kind = "entry" /\ Id(lines[i].pre, lines[i].num) = entry_id}

\* The existing playbook files that hold an entry with this id.
FilesWithId(pb, entry_id) ==
    {p \in Projects : pb[p].exists /\ LinesWithId(pb[p].lines, entry_id) # {}}

First(S) == CHOOSE i \in S : \A j \in S : i <= j

\* Thread t completes update_counters or remove_entry in this step.
LookupStep(t) ==
    pc[t] = "body" /\ op[t].name \in {"update_counters", "remove_entry"} /\ pc'[t] = "done"

\* C18: update_counters and remove_entry search every existing playbook
\* file.  When the id is in the file of some project, global or not, the
\* operation applies to it: one file that holds the id is rewritten, with
\* the counters of the entry moved by the deltas or with the id gone from
\* it, and no other file changes.  When the id is in no file the result is
\* "not found" and every playbook file is unchanged.
C18_SearchesAllFiles ==
    [][\A t \in Threads : LookupStep(t) =>
         LET id == op[t].entry_id
             holders == FilesWithId(playbooks, id)
         IN  /\ holders = {} =>
                   result'[t].kind = "not_found" /\ playbooks' = playbooks
             /\ holders # {} =>
                   \E p \in holders :
                      /\ \A q \in Projects \ {p} : playbooks'[q] = playbooks[q]
                      /\ IF op[t].name = "remove_entry"
                         THEN /\ result'[t].kind = "removed"
                              /\ LinesWithId(playbooks'[p].lines, id) = {}
                         ELSE LET i == First(LinesWithId(playbooks[p].lines, id))
                                  old == playbooks[p].lines[i]
                                  new == playbooks'[p].lines[i]
                              IN  /\ result'[t].kind = "updated"
                                  /\ Len(playbooks'[p].lines) = Len(playbooks[p].lines)
                                  /\ Id(new.pre, new.num) = id
                                  /\ new.content = old.content
                                  /\ new.helpful = Max(0, old.helpful + op[t].helpful_delta)
                                  /\ new.harmful = Max(0, old.harmful + op[t].harmful_delta)
      ]_vars

\* Witness of C18: update_counters has updated an entry that only the file
\* of a project other than "global" holds.
C18_Witness ==
    \E t \in Threads :
        /\ pc[t] = "done"
        /\ op[t].name = "update_counters"
        /\ result[t].kind = "updated"
        /\ result[t].old # result[t].new
        /\ FilesWithId(playbooks, op[t].entry_id) = {"fin"}

\* C19: once remove_entry(id) has returned its confirmation, and until a
\* later add_entry allocates the id again, the result of read_playbook holds
\* no entry with that id, for any project.
C19_RemovedIsGone ==
    \A t \in Threads :
        (pc[t] = "done" /\ op[t].name = "remove_entry" /\ result[t].kind = "removed") =>
            \A p \in Projects :
                LinesWithId(ReadPlaybookText(playbooks, p), op[t].entry_id) = {}

\* Thread t calls add_entry or get_section with a name that is not one of
\* the four section names.
InvalidSectionCall(t) ==
    /\ pc[t] = "idle"
    /\ pc'[t] # "idle"
    /\ op'[t].name \in {"add_entry", "get_section"}
    /\ op'[t].section \notin SectionNames

\* C20: add_entry and get_section called with a section name outside the
\* four names return an "Invalid section" result at once and change
\* nothing: no playbook file is created or modified, no id is allocated,
\* the registry is unchanged (and the guard is not taken).
C20_InvalidSection ==
    [][\A t \in Threads : InvalidSectionCall(t) =>
          /\ pc'[t] = "done"
          /\ result'[t] = Returned("invalid_section")
          /\ playbooks' = playbooks
          /\ registry' = registry
          /\ reflections' = reflections
          /\ local' = local
          /\ lock' = lock
      ]_vars

\* Witness of C20: add_entry with an invalid section has returned, and the
\* playbook file of its project still does not exist.
C20_Witness ==
    \E t \in Threads :
        /\ pc[t] = "done"
        /\ op[t].name = "add_entry"
        /\ op[t].section \notin SectionNames
        /\ result[t].kind = "invalid_section"
        /\ ~playbooks[op[t].project_id].exists

(***************************************************************************)
(* Frame of add_entry.                                                     *)
(***************************************************************************)
\* a[i..] can be found, in order, among b[j..].
RECURSIVE EmbedsFrom(_, _, _, _)
EmbedsFrom(a, b, i, j) ==
    IF i > Len(a) THEN TRUE
    ELSE IF j > Len(b) THEN FALSE
    ELSE IF a[i] = b[j] THEN EmbedsFrom(a, b, i + 1, j + 1)
    ELSE EmbedsFrom(a, b, i, j + 1)

\* Every line of a is kept in b, in the same relative order.
KeptInOrder(a, b) == EmbedsFrom(a, b, 1, 1)

EntryCount(lines) == Cardinality({i \in DOMAIN lines : lines[i].kind = "entry"})

\* b is a with the line e put in as line number k.
InsertedAt(a, b, k, e) ==
    /\ Len(b) = Len(a) + 1
    /\ k \in DOMAIN b
    /\ b[k] = e
    /\ \A i \in DOMAIN a : IF i < k THEN b[i] = a[i] ELSE b[i + 1] = a[i]

\* The lines from k + 1 to the next header (or the end) are all blank.
BlankToSectionEnd(lines, k) ==
    \A i \in (k + 1)..Len(lines) :
        (\A j \in (k + 1)..i : lines[j].kind # "header") => lines[i].kind = "blank"

\* Thread t writes the file of add_entry in this step.
AddEntryWriteStep(t) ==
    pc[t] = "write" /\ op[t].name = "add_entry" /\ pc'[t] = "done"

\* What C21 says of one write of add_entry; the last non-blank line of a
\* section is looked for in the whole range of the section, header included.
AddEntryFrame(t) ==
    LET p == op[t].project_id
        section == op[t].section
        before == playbooks[p].lines
        after == playbooks'[p].lines
        e == _format_entry(result'[t].id, 0, 0, op[t].content, "")
    IN  /\ result'[t].kind = "added"
        /\ \A q \in Projects \ {p} : playbooks'[q] = playbooks[q]
        /\ KeptInOrder(before, after)
        /\ EntryCount(after) = EntryCount(before) + 1
        /\ IF Header(section) \in Range(before)
           THEN \E k \in DOMAIN after :
                   /\ InsertedAt(before, after, k, e)
                   /\ HeaderAbove(after, k) = section
                   /\ after[k - 1].kind # "blank"
                   /\ BlankToSectionEnd(after, k)
           ELSE \E k \in DOMAIN after :
                   /\ k > 1
                   /\ after[k] = e
                   /\ after[k - 1] = Header(section)
                   /\ \A i \in (k + 1)..Len(after) : after[i].kind = "blank"

\* C21: a successful add_entry(section, content, p) puts exactly one new
\* line, with both counters 0, into the file of p: inside the section,
\* directly after the section's last non-blank line, or in a new section at
\* the end of the file when the section is absent; every line the file had
\* is kept as it was and in the same order, and no other file changes.
C21_AddEntryFrame ==
    [][\A t \in Threads : AddEntryWriteStep(t) => AddEntryFrame(t)]_vars

\* The ids the registry holds: "global" alone while the file is not written.
RegisteredIds(reg) ==
    IF reg.exists THEN {reg.projects[i].id : i \in DOMAIN reg.projects} ELSE {"global"}

\* Thread t completes create_project in this step.
CreateProjectStep(t) ==
    pc[t] = "body" /\ op[t].name = "create_project" /\ pc'[t] = "done"

\* C22: create_project(id) for an id the registry holds ("global" included)
\* returns "already exists" and leaves the registry, the description of the
\* project and every playbook file as they are; for a new id it adds the id
\* to the registry, with its description, and the playbook file of the
\* project exists afterwards.
C22_CreateProject ==
    [][\A t \in Threads : CreateProjectStep(t) =>
         LET id == op[t].project_id
         IN  IF id \in RegisteredIds(registry)
             THEN /\ result'[t].kind = "exists"
                  /\ registry' = registry
                  /\ playbooks' = playbooks
             ELSE /\ result'[t].kind = "created"
                  /\ RegisteredIds(registry') = RegisteredIds(registry) \cup {id}
                  /\ registry'.exists
                  /\ \E i \in DOMAIN registry'.projects :
                        registry'.projects[i] =
                            [id |-> id, description |-> op[t].description]
                  /\ registry.exists =>
                        \A i \in DOMAIN registry.projects :
                            registry'.projects[i] = registry.projects[i]
                  /\ playbooks'[id].exists
                  /\ playbooks[id].exists => playbooks'[id] = playbooks[id]
                  /\ \A q \in Projects \ {id} : playbooks'[q] = playbooks[q]
      ]_vars

\* Witness of C22: create_project of a registered project, called with a
\* description other than the stored one, returned "already exists".
C22_Witness ==
    \E t \in Threads :
        /\ pc[t] = "done"
        /\ op[t].name = "create_project"
        /\ result[t].kind = "exists"
        /\ \E i \in DOMAIN registry.projects :
              /\ registry.projects[i].id = op[t].project_id
              /\ registry.projects[i].description # op[t].description

\* The entries of the default playbook.
SeedEntries == {l \in Range(DEFAULT_PLAYBOOK) : l.kind = "entry"}

\* The text holds the seed entry l (same id and content, any counters).
HoldsSeed(lines, l) ==
    \E i \in DOMAIN lines :
        /\ lines[i].kind = "entry"
        /\ Id(lines[i].pre, lines[i].num) = Id(l.pre, l.num)
        /\ lines[i].content = l.content

\* C23: the default content is written to the global playbook only when no
\* global playbook file exists, and then it is the file's whole text; once
\* the file exists it stays, and a seed entry it no longer holds (removed
\* by remove_entry or pruned by curate_playbook) is brought back by no
\* operation, so no later read or lazy creation shows it again: the text
\* read_playbook returns holds a seed entry only if the global file holds it.
C23_SeedOnlyOnce ==
    /\ [][/\ (~playbooks["global"].exists /\ playbooks'["global"].exists) =>
                 playbooks'["global"].lines = DEFAULT_PLAYBOOK
          /\ playbooks["global"].exists =>
                 /\ playbooks'["global"].exists
                 /\ \A l \in SeedEntries :
                       ~HoldsSeed(playbooks["global"].lines, l) =>
                           ~HoldsSeed(playbooks'["global"].lines, l)
         ]_vars
    /\ [](\A t \in Threads :
            (pc[t] = "done" /\ op[t].name = "read_playbook") =>
                \A l \in SeedEntries :
                    HoldsSeed(result[t].lines, l) => HoldsSeed(playbooks["global"].lines, l))

\* Witness of C23: read_playbook returned after a seed entry had left the
\* global playbook, and the text it returned does not hold that entry.
C23_Witness ==
    \E t \in Threads :
        /\ pc[t] = "done"
        /\ op[t].name = "read_playbook"
        /\ result[t].kind = "playbook"
        /\ playbooks["global"].exists
        /\ \E l \in SeedEntries :
              /\ ~HoldsSeed(playbooks["global"].lines, l)
              /\ ~HoldsSeed(result[t].lines, l)

(***************************************************************************)
(* Policy B: the standalone curation pass (ace-skill/scripts/curate.py).   *)
(* parse_playbook gives the sections as a sequence of [name, entries] in   *)
(* the order the dictionary holds them; an entry is [id, helpful, harmful, *)
(* content], its "raw" text being the line _format_entry writes for it     *)
(* without a marker.                                                       *)
(***************************************************************************)
\* ENTRY_PATTERN matches the stripped line: no project marker is allowed
\* between the counters and "::".
MatchesEntryPattern(line) ==
    /\ line.kind = "entry"
    /\ FiveDigits(line.num)
    /\ line.tag = ""
    /\ line.content # NoContent

EntryOfLine(line) ==
    [id |-> Id(line.pre, line.num), helpful |-> line.helpful,
     harmful |-> line.harmful, content |-> line.content]

\* entry['raw']
RawOf(entry) == _format_entry(entry.id, entry.helpful, entry.harmful, entry.content, "")

\* sections[current_section].append(entry): a new name goes last.
AppendToSection(sections, name, entry) ==
    IF \E k \in DOMAIN sections : sections[k].name = name
    THEN [k \in DOMAIN sections |->
            IF sections[k].name = name
            THEN [sections[k] EXCEPT !.entries = Append(@, entry)]
            ELSE sections[k]]
    ELSE Append(sections, [name |-> name, entries |-> <<entry>>])

\* The loop of parse_playbook from line i on; current is "" for None.
RECURSIVE ParseFrom(_, _, _, _)
ParseFrom(lines, i, current, sections) ==
    IF i > Len(lines) THEN sections
    ELSE IF lines[i].kind = "header"
         THEN ParseFrom(lines, i + 1, lines[i].name, sections)
         ELSE IF MatchesEntryPattern(lines[i]) /\ current # ""
              THEN ParseFrom(lines, i + 1, current,
                             AppendToSection(sections, current, EntryOfLine(lines[i])))
              ELSE ParseFrom(lines, i + 1, current, sections)

parse_playbook(lines) == ParseFrom(lines, 1, "", <<>>)

\* A threshold of 0.80 in place of 0.85.
IsDuplicateB80(sim) == 100 * sim.num >= 80 * sim.den

\* similarity(a, b) >= SIMILARITY_THRESHOLD, with SIMILARITY_THRESHOLD = 0.85
IsDuplicateB(sim) == 100 * sim.num >= 85 * sim.den

\* The loop of find_duplicates from entry i on: the groups are sets of ids.
RECURSIVE FindDuplicatesFrom(_, _, _, _)
FindDuplicatesFrom(entries, i, processed, groups) ==
    IF i > Len(entries) THEN groups
    ELSE IF entries[i].id \in processed
         THEN FindDuplicatesFrom(entries, i + 1, processed, groups)
         ELSE LET absorbed ==
                      {entries[j].id : j \in
                          {k \in (i + 1)..Len(entries) :
                              /\ entries[k].id \notin processed
                              /\ IsDuplicateB(_similarity(entries[i].content,
                                                          entries[k].content))}}
                  group == {entries[i].id} \cup absorbed
              IN  IF Cardinality(group) > 1
                  THEN FindDuplicatesFrom(entries, i + 1,
                                          processed \cup group, Append(groups, group))
                  ELSE FindDuplicatesFrom(entries, i + 1, processed \cup absorbed, groups)

find_duplicates(entries) == FindDuplicatesFrom(entries, 1, {}, <<>>)

RECURSIVE SumFrom(_, _)
SumFrom(nums, k) == IF k > Len(nums) THEN 0 ELSE nums[k] + SumFrom(nums, k + 1)

Sum(nums) == SumFrom(nums, 1)

\* The last of the highest.
BestOfLast(duplicates) ==
    duplicates[CHOOSE i \in DOMAIN duplicates :
                  /\ \A j \in DOMAIN duplicates : duplicates[j].helpful <= duplicates[i].helpful
                  /\ \A j \in (i + 1)..Len(duplicates) :
                        duplicates[j].helpful < duplicates[i].helpful]

\* max(duplicates, key=lambda e: e['helpful']): the first of the highest.
BestOf(duplicates) ==
    duplicates[CHOOSE i \in DOMAIN duplicates :
                  /\ \A j \in DOMAIN duplicates : duplicates[j].helpful <= duplicates[i].helpful
                  /\ \A j \in 1..(i - 1) : duplicates[j].helpful < duplicates[i].helpful]

merge_duplicates(entries, duplicate_group) ==
    LET in_group(e) == e.id \in duplicate_group
        duplicates == SelectSeq(entries, in_group)
        best == BestOf(duplicates)
    IN  [id |-> best.id,
         helpful |-> Sum([k \in DOMAIN duplicates |-> duplicates[k].helpful]),
         harmful |-> Sum([k \in DOMAIN duplicates |-> duplicates[k].harmful]),
         content |-> best.content]

\* list.sort(key=helpful, reverse=True): stable, entries of equal helpful
\* keep their order.
RECURSIVE SortByHelpfulFrom(_, _, _)
SortByHelpfulFrom(entries, k, sorted) ==
    IF k > Len(entries) THEN sorted
    ELSE LET e == entries[k]
             ahead == {i \in DOMAIN sorted : sorted[i].helpful >= e.helpful}
             at == IF ahead = {} THEN 0 ELSE CHOOSE i \in ahead : \A j \in ahead : j <= i
         IN  SortByHelpfulFrom(entries, k + 1,
                 SubSeq(sorted, 1, at) \o <<e>> \o SubSeq(sorted, at + 1, Len(sorted)))

\* The sort taking the entries from the last to the first.
SortByHelpfulBackwards(entries) ==
    SortByHelpfulFrom([k \in DOMAIN entries |-> entries[Len(entries) + 1 - k]], 1, <<>>)

SortByHelpful(entries) == SortByHelpfulFrom(entries, 1, <<>>)

\* curate_section pruning one later: harmful > helpful + threshold + 1.
curate_section_Late(entries, harmful_threshold) ==
    LET stays(e) == ~(e.harmful > e.helpful + harmful_threshold + 1)
        filtered == SelectSeq(entries, stays)
        duplicate_groups == find_duplicates(filtered)
        merged_ids == UNION Range(duplicate_groups)
        merged == [g \in DOMAIN duplicate_groups |->
                      merge_duplicates(filtered, duplicate_groups[g])]
        single(e) == e.id \notin merged_ids
        untouched == SelectSeq(filtered, single)
    IN  [curated |-> SortByHelpful(merged \o untouched),
         removed_harmful |-> Len(entries) - Len(filtered),
         merged_duplicates |->
            Sum([g \in DOMAIN duplicate_groups |-> Cardinality(duplicate_groups[g]) - 1]),
         kept |-> Len(untouched)]

\* curate_section: [curated, removed_harmful, merged_duplicates, kept]
curate_section(entries, harmful_threshold) ==
    LET stays(e) == ~(e.harmful > e.helpful + harmful_threshold)
        filtered == SelectSeq(entries, stays)
        duplicate_groups == find_duplicates(filtered)
        merged_ids == UNION Range(duplicate_groups)
        merged == [g \in DOMAIN duplicate_groups |->
                      merge_duplicates(filtered, duplicate_groups[g])]
        single(e) == e.id \notin merged_ids
        untouched == SelectSeq(filtered, single)
    IN  [curated |-> SortByHelpful(merged \o untouched),
         removed_harmful |-> Len(entries) - Len(filtered),
         merged_duplicates |->
            Sum([g \in DOMAIN duplicate_groups |-> Cardinality(duplicate_groups[g]) - 1]),
         kept |-> Len(untouched)]

\* The other names before the four.
AllSectionsOthersFirst(curated_sections) ==
    LET other(c) == c.name \notin SectionNames
        extras == SelectSeq(curated_sections, other)
    IN  [k \in DOMAIN extras |-> extras[k].name] \o SECTIONS

\* all_sections of rebuild_playbook: the four names, then the other names
\* of curated_sections in its order.
AllSections(curated_sections) ==
    LET other(c) == c.name \notin SectionNames
        extras == SelectSeq(curated_sections, other)
    IN  SECTIONS \o [k \in DOMAIN extras |-> extras[k].name]

\* rebuild_playbook writing the entries of a section from the last to the
\* first.
rebuild_playbook_Reversed(curated_sections) ==
    LET all == AllSections(curated_sections)
        part(k) ==
            LET here == {c \in DOMAIN curated_sections :
                            curated_sections[c].name = all[k]}
            IN  IF here = {} THEN <<>>
                ELSE LET entries == curated_sections[CHOOSE c \in here : TRUE].curated
                     IN  IF entries = <<>> THEN <<>>
                         ELSE <<Header(all[k])>>
                              \o [e \in DOMAIN entries |->
                                    RawOf(entries[Len(entries) + 1 - e])]
                              \o <<Blank>>
        out == Flatten([k \in DOMAIN all |-> part(k)])
    IN  IF out = <<>> THEN <<Blank>> ELSE out

\* rebuild_playbook: "\n".join(lines) as lines; the empty text is one empty
\* line.
rebuild_playbook(curated_sections) ==
    LET all == AllSections(curated_sections)
        part(k) ==
            LET here == {c \in DOMAIN curated_sections :
                            curated_sections[c].name = all[k]}
            IN  IF here = {} THEN <<>>
                ELSE LET entries == curated_sections[CHOOSE c \in here : TRUE].curated
                     IN  IF entries = <<>> THEN <<>>
                         ELSE <<Header(all[k])>>
                              \o [e \in DOMAIN entries |-> RawOf(entries[e])]
                              \o <<Blank>>
        out == Flatten([k \in DOMAIN all |-> part(k)])
    IN  IF out = <<>> THEN <<Blank>> ELSE out

\* curate_playbook of curate.py: the curated text and overall_stats.
curate_playbook(lines, harmful_threshold) ==
    LET sections == parse_playbook(lines)
        curated_sections ==
            [k \in DOMAIN sections |->
                [name |-> sections[k].name]
                    @@ curate_section(sections[k].entries, harmful_threshold)]
        total(f) == Sum([k \in DOMAIN sections |-> f[k]])
    IN  [lines |-> rebuild_playbook(curated_sections),
         sections_processed |-> Len(sections),
         total_removed_harmful |->
            total([k \in DOMAIN sections |-> curated_sections[k].removed_harmful]),
         total_merged_duplicates |->
            total([k \in DOMAIN sections |-> curated_sections[k].merged_duplicates]),
         total_kept |-> total([k \in DOMAIN sections |-> curated_sections[k].kept]),
         original_count |-> total([k \in DOMAIN sections |-> Len(sections[k].entries)]),
         final_count |-> total([k \in DOMAIN sections |-> Len(curated_sections[k].curated)])]

(***************************************************************************)
(* SpecPass: one run of "python curate.py <playbook> [--threshold N]       *)
(* [--dry-run]" on a playbook file (kept as the file of "global").  The    *)
(* files: a section of one to three entries whose contents are equal,      *)
(* near (10/11, 8/11) or at 0.8 from each other, with counters that prune  *)
(* at one threshold or the other; the second entry may repeat the id of    *)
(* the first (as add_entry to an unregistered project leaves it) or carry  *)
(* a project marker (a saved overlay); alone, or inside a file with a      *)
(* title, an entry above every header, a section of another name, a        *)
(* section without entries and the sections out of the canonical order.    *)
(* Further, a section with two groups and an entry outside them, a file    *)
(* with sections of other names, one header of which comes twice, and a    *)
(* section of three contents in a chain (6/7, 6/7, 5/7).                   *)
(***************************************************************************)
PassCounters == {<<0, 0>>, <<2, 0>>, <<0, 3>>, <<0, 4>>}

PassContents == {ContentA, ContentB, ContentC}

PassLines(nums, tags) ==
    {_format_entry(Id("str", n), c[1], c[2], x, g) :
        n \in nums, c \in PassCounters, x \in PassContents, g \in tags}

PassSections ==
    LET first == PassLines({1}, {""})
        second == PassLines({1, 2}, {""})
                    \cup {_format_entry(Id("str", 2), 2, 0, ContentA, "fin")}
        third == PassLines({3}, {""})
    IN  {<<a>> : a \in first}
        \cup {<<a, b>> : a \in first, b \in second}
        \cup {<<a, b, c>> : a \in first, b \in second, c \in third}

PlainPlaybook(entries) == <<Header("STRATEGIES & INSIGHTS")>> \o entries \o <<Blank>>

RichPlaybook(entries) ==
    << TextLine("fin"), Blank,
       _format_entry(Id("str", 9), 5, 0, ContentB, ""),
       Header("NOTES"),
       _format_entry(Id("not", 1), 0, 0, ContentB, ""),
       Blank,
       Header("DOMAIN KNOWLEDGE"),
       _format_entry(Id("dom", 1), 0, 0, <<"c", "w">>, ""),
       _format_entry(Id("dom", 2), 1, 0, ContentA, ""),
       Blank,
       Header("FORMULAS & CALCULATIONS"),
       Blank,
       Header("STRATEGIES & INSIGHTS") >>
    \o entries \o <<Blank>>

\* Two more contents, near each other (10/11) and far from the others.
ContentD == <<"v", "w", "x", "y", "z">>

ContentE == <<"v", "w", "x", "y", "z", "g">>

\* A section in which two groups are found, behind an entry that is in
\* neither: the helpful counts h make the merged and the untouched tie.
TwoGroupsPlaybook(h) ==
    << Header("STRATEGIES & INSIGHTS"),
       _format_entry(Id("str", 1), h[1], 0, ContentB, ""),
       _format_entry(Id("str", 2), h[2], 0, ContentD, ""),
       _format_entry(Id("str", 3), h[3], 0, ContentA, ""),
       _format_entry(Id("str", 4), 0, 0, ContentE, ""),
       _format_entry(Id("str", 5), 0, 0, ContentC, ""),
       Blank >>

\* Sections of other names, one of them opened before it holds an entry
\* and opened again later; the entry of NOTES may be one that is pruned.
RepeatedHeaderPlaybook(c) ==
    << Header("NOTES"),
       Blank,
       Header("IDEAS"),
       _format_entry(Id("ide", 1), 0, 0, ContentA, ""),
       Blank,
       Header("DOMAIN KNOWLEDGE"),
       _format_entry(Id("dom", 1), 0, 0, ContentD, ""),
       Blank,
       Header("NOTES"),
       _format_entry(Id("not", 1), c[1], c[2], ContentB, ""),
       Blank >>

\* Three contents in a chain: each is at 6/7 from the next, the first at
\* 5/7 from the last.
ChainA == <<"a", "b", "c", "d", "e", "f", "g">>

ChainB == <<"b", "c", "d", "e", "f", "g", "h">>

ChainC == <<"c", "d", "e", "f", "g", "h", "i">>

\* A section whose second entry is near both the first and the third, which
\* are not near each other; the helpful counts h choose the content a merge
\* keeps.
ChainPlaybook(h) ==
    << Header("STRATEGIES & INSIGHTS"),
       _format_entry(Id("str", 1), h[1], 0, ChainA, ""),
       _format_entry(Id("str", 2), h[2], 0, ChainB, ""),
       _format_entry(Id("str", 3), h[3], 0, ChainC, ""),
       Blank >>

PassFiles ==
    {File(PlainPlaybook(es)) : es \in PassSections}
    \cup {File(RichPlaybook(es)) : es \in PassSections}
    \cup {File(TwoGroupsPlaybook(h)) : h \in [1..3 -> {0, 2}]}
    \cup {File(RepeatedHeaderPlaybook(c)) : c \in PassCounters}
    \cup {File(ChainPlaybook(h)) : h \in [1..3 -> {0, 2}]}
    \cup {NoFile}

\* The command line: the threshold, and "--dry-run" in the field query.
CallCurateScript(threshold, dry_run) ==
    [NoCall EXCEPT !.name = "curate.py", !.project_id = "global",
                   !.harmful_threshold = threshold,
                   !.query = IF dry_run THEN <<"--dry-run">> ELSE <<>>]

InitPass ==
    /\ \E f \in PassFiles :
          /\ playbooks = [p \in Projects |-> IF p = "global" THEN f ELSE NoFile]
          /\ store0 = [p \in Projects |-> IF p = "global" THEN f ELSE NoFile]
    /\ registry = FreshStore.registry
    /\ reflections = [p \in Projects |-> <<>>]
    /\ lock = 0
    /\ pc = [t \in Threads |-> "idle"]
    /\ op = [t \in Threads |-> NoCall]
    /\ local = [t \in Threads |-> NoLocal]
    /\ result = [t \in Threads |-> NoResult]
    /\ calls = 0
    /\ unregistered = FALSE

\* main, first half: the arguments are parsed and the playbook is read; the
\* run ends here when the file does not exist.
PassRead(t) ==
    /\ pc[t] = "idle"
    /\ \E threshold \in InputThresholds, dry_run \in BOOLEAN :
          op' = [op EXCEPT ![t] = CallCurateScript(threshold, dry_run)]
    /\ calls' = calls + 1
    /\ IF playbooks["global"].exists
       THEN /\ pc' = [pc EXCEPT ![t] = "rebuild"]
            /\ local' = [local EXCEPT ![t] =
                            [new_id |-> NoId, lines |-> playbooks["global"].lines]]
            /\ UNCHANGED result
       ELSE /\ pc' = [pc EXCEPT ![t] = "done"]
            /\ result' = [result EXCEPT ![t] = Returned("no_playbook")]
            /\ UNCHANGED local
    /\ UNCHANGED <<playbooks, registry, reflections, lock, store0, unregistered>>

\* A pass that reads the file again when it writes.
PassWriteFresh(t) ==
    /\ pc[t] = "rebuild"
    /\ \E r \in {curate_playbook(playbooks["global"].lines, op[t].harmful_threshold)} :
          /\ result' = [result EXCEPT ![t] = [kind |-> "pass"] @@ r]
          /\ playbooks' = IF op[t].query # <<>> THEN playbooks
                          ELSE _write_playbook_content(playbooks, r.lines, "global")
    /\ pc' = [pc EXCEPT ![t] = "done"]
    /\ UNCHANGED <<registry, reflections, lock, op, local, calls, store0, unregistered>>

\* main, second half: the text read is curated and, unless --dry-run is
\* given, written over the file; the guard of the server is not involved.
PassWrite(t) ==
    /\ pc[t] = "rebuild"
    /\ \E r \in {curate_playbook(local[t].lines, op[t].harmful_threshold)} :
          /\ result' = [result EXCEPT ![t] = [kind |-> "pass"] @@ r]
          /\ playbooks' = IF op[t].query # <<>> THEN playbooks
                          ELSE _write_playbook_content(playbooks, r.lines, "global")
    /\ pc' = [pc EXCEPT ![t] = "done"]
    /\ UNCHANGED <<registry, reflections, lock, op, local, calls, store0, unregistered>>

NextPass == PassRead(1) \/ PassWrite(1)

SpecPass == InitPass /\ [][NextPass]_vars


(***************************************************************************)
(* C24.  Policy B merge conservation.                                      *)
(***************************************************************************)
PassDone(t) == pc[t] = "done" /\ result[t].kind = "pass"

\* The entries parsed under a section name, none when the name is absent.
SectionEntries(sections, name) ==
    IF \E k \in DOMAIN sections : sections[k].name = name
    THEN sections[CHOOSE k \in DOMAIN sections : sections[k].name = name].entries
    ELSE <<>>

\* The entries of a section that harmful pruning leaves.
Survivors(entries, harmful_threshold) ==
    LET stays(e) == ~(e.harmful > e.helpful + harmful_threshold)
    IN  SelectSeq(entries, stays)

\* The entries a duplicate group stands for.
MembersOf(entries, group) ==
    LET in_group(e) == e.id \in group
    IN  SelectSeq(entries, in_group)

\* C24: after a pass, for every duplicate group found among the survivors
\* of a section the rebuilt section holds an entry whose helpful and harmful
\* are the sums over the group's members, the section holds n-1 entries
\* fewer for each group of n members, and the reported counts satisfy
\* final_count = original_count - removed_harmful - merged_duplicates.
C24_MergeConservation ==
    \A t \in Threads :
        PassDone(t) =>
            LET before == parse_playbook(store0["global"].lines)
                after == parse_playbook(result[t].lines)
            IN  /\ \A k \in DOMAIN before :
                      LET survivors == Survivors(before[k].entries,
                                                 op[t].harmful_threshold)
                          groups == find_duplicates(survivors)
                          rebuilt == SectionEntries(after, before[k].name)
                          members(g) == MembersOf(survivors, groups[g])
                      IN  /\ \A g \in DOMAIN groups :
                                /\ Len(members(g)) >= 2
                                /\ \E e \in Range(rebuilt) :
                                      /\ e.id \in groups[g]
                                      /\ e.helpful = Sum([i \in DOMAIN members(g) |->
                                                             members(g)[i].helpful])
                                      /\ e.harmful = Sum([i \in DOMAIN members(g) |->
                                                             members(g)[i].harmful])
                          /\ Len(rebuilt) = Len(survivors)
                                - Sum([g \in DOMAIN groups |-> Len(members(g)) - 1])
                /\ result[t].final_count =
                      result[t].original_count - result[t].total_removed_harmful
                          - result[t].total_merged_duplicates

\* The ids of a section's entries are pairwise different.
UniqueIds(entries) ==
    \A i, j \in DOMAIN entries : entries[i].id = entries[j].id => i = j

\* The same on the playbooks where no section holds an id twice.
C24_ConservationUniqueIds ==
    (\A s \in Range(parse_playbook(store0["global"].lines)) : UniqueIds(s.entries))
        => C24_MergeConservation


(***************************************************************************)
(* The entry codec on text.  Above, a line of a playbook is kept as the    *)
(* fields it is made of; here _format_entry and _parse_entry are taken     *)
(* character by character: a text is a sequence of one-character strings,  *)
(* a number is written in decimal and read back with int(), an absent      *)
(* project marker (None) is the empty text.                                *)
(***************************************************************************)
DigitChars == <<"0", "1", "2", "3", "4", "5", "6", "7", "8", "9">>

LowerChars ==
    {"a", "b", "c", "d", "e", "f", "g", "h", "i", "j", "k", "l", "m",
     "n", "o", "p", "q", "r", "s", "t", "u", "v", "w", "x", "y", "z"}

\* \s of the bounded alphabet
SpaceChars == {" ", "\t"}

IsDigit(c) == c \in Range(DigitChars)

DigitValue(c) == (CHOOSE k \in DOMAIN DigitChars : DigitChars[k] = c) - 1

\* f"{n}" of a non-negative integer
RECURSIVE ToDecimal(_)
ToDecimal(n) ==
    IF n < 10 THEN <<DigitChars[n + 1]>>
    ELSE ToDecimal(n \div 10) \o <<DigitChars[(n % 10) + 1]>>

\* int(digits)
RECURSIVE FromDecimal(_)
FromDecimal(digits) ==
    IF digits = <<>> THEN 0
    ELSE 10 * FromDecimal(SubSeq(digits, 1, Len(digits) - 1))
            + DigitValue(digits[Len(digits)])

\* str.strip()
RECURSIVE StripText(_)
StripText(text) ==
    IF text = <<>> THEN text
    ELSE IF Head(text) \in SpaceChars THEN StripText(Tail(text))
    ELSE IF text[Len(text)] \in SpaceChars
         THEN StripText(SubSeq(text, 1, Len(text) - 1))
         ELSE text

\* The first position from i on whose character is not in chars (greedy
\* repetition of a character class), Len(text) + 1 when there is none.
RECURSIVE SkipChars(_, _, _)
SkipChars(text, i, chars) ==
    IF i > Len(text) \/ text[i] \notin chars THEN i
    ELSE SkipChars(text, i + 1, chars)

\* The first position from i on that holds "]" ([^\]]+ stops there).
RECURSIVE SkipToBracket(_, _)
SkipToBracket(text, i) ==
    IF i > Len(text) \/ text[i] = "]" THEN i
    ELSE SkipToBracket(text, i + 1)

\* The literal lit stands at position i of text.
LiteralAt(text, i, lit) ==
    /\ i + Len(lit) - 1 <= Len(text)
    /\ SubSeq(text, i, i + Len(lit) - 1) = lit

HelpfulEq == <<"h", "e", "l", "p", "f", "u", "l", "=">>

HarmfulEq == <<"h", "a", "r", "m", "f", "u", "l", "=">>

\* The marker is never written.
_format_entry_text_NoMarker(entry_id, helpful, harmful, content, project_marker) ==
    <<"[">> \o entry_id \o <<"]", " ">>
        \o HelpfulEq \o ToDecimal(helpful) \o <<" ">>
        \o HarmfulEq \o ToDecimal(harmful)
        \o <<" ", ":", ":", " ">> \o content

\* f"[{entry_id}] helpful={helpful} harmful={harmful} [{project_marker}] ::
\* {content}", the marker part only "if project_marker".
_format_entry_text(entry_id, helpful, harmful, content, project_marker) ==
    <<"[">> \o entry_id \o <<"]", " ">>
        \o HelpfulEq \o ToDecimal(helpful) \o <<" ">>
        \o HarmfulEq \o ToDecimal(harmful)
        \o (IF project_marker # <<>> THEN <<" ", "[">> \o project_marker \o <<"]">>
            ELSE <<>>)
        \o <<" ", ":", ":", " ">> \o content

NoEntryText ==
    [ok |-> FALSE, id |-> <<>>, helpful |-> 0, harmful |-> 0,
     project_id |-> <<>>, content |-> <<>>]

\* \s+::\s+(.+) from position i: where the content starts, 0 for no match.
\* The second \s+ gives a character back when it reached the end.
ContentStart(text, i) ==
    LET colons == SkipChars(text, i, SpaceChars)
        after == SkipChars(text, colons + 2, SpaceChars)
        start == IF after > Len(text) THEN after - 1 ELSE after
    IN  IF /\ colons > i
           /\ LiteralAt(text, colons, <<":", ":">>)
           /\ start > colons + 2
           /\ start <= Len(text)
        THEN start ELSE 0

\* (?:\s+\[([^\]]+)\])? from position i: [from, to] of the marker, or
\* [0, 0] when the group does not match.
MarkerAt(text, i) ==
    LET open == SkipChars(text, i, SpaceChars)
        close == SkipToBracket(text, open + 1)
    IN  IF /\ open > i
           /\ LiteralAt(text, open, <<"[">>)
           /\ close > open + 1
           /\ close <= Len(text)
        THEN [from |-> open + 1, to |-> close - 1] ELSE [from |-> 0, to |-> 0]

\* \[([a-z]{3}-\d{5})\]\s+helpful=(\d+)\s+harmful=(\d+): the position after
\* the counters, with the places of the two numbers; 0 for no match.
CountersEnd(text) ==
    LET h1 == SkipChars(text, 12, SpaceChars)
        h2 == SkipChars(text, h1 + 8, Range(DigitChars))
        m1 == SkipChars(text, h2, SpaceChars)
        m2 == SkipChars(text, m1 + 8, Range(DigitChars))
    IN  IF /\ Len(text) >= 11
           /\ text[1] = "["
           /\ \A k \in 2..4 : text[k] \in LowerChars
           /\ text[5] = "-"
           /\ \A k \in 6..10 : IsDigit(text[k])
           /\ text[11] = "]"
           /\ h1 > 12
           /\ LiteralAt(text, h1, HelpfulEq)
           /\ h2 > h1 + 8
           /\ m1 > h2
           /\ LiteralAt(text, m1, HarmfulEq)
           /\ m2 > m1 + 8
        THEN [end |-> m2, helpful |-> SubSeq(text, h1 + 8, h2 - 1),
              harmful |-> SubSeq(text, m1 + 8, m2 - 1)]
        ELSE [end |-> 0, helpful |-> <<>>, harmful |-> <<>>]

\* _parse_entry: re.match of the pattern on line.strip(); the marker group
\* is tried first, then the pattern without it (which is also what the old
\* pattern matches).
_parse_entry_text(line) ==
    LET text == StripText(line)
        counters == CountersEnd(text)
        marker == MarkerAt(text, counters.end)
        tagged == IF marker.from = 0 THEN 0 ELSE ContentStart(text, marker.to + 2)
        plain == ContentStart(text, counters.end)
        entry(project_id, start) ==
            [ok |-> TRUE, id |-> SubSeq(text, 2, 10),
             helpful |-> FromDecimal(counters.helpful),
             harmful |-> FromDecimal(counters.harmful),
             project_id |-> project_id,
             content |-> SubSeq(text, start, Len(text))]
    IN  IF counters.end = 0 THEN NoEntryText
        ELSE IF tagged # 0 THEN entry(SubSeq(text, marker.from, marker.to), tagged)
        ELSE IF plain # 0 THEN entry(<<>>, plain)
        ELSE NoEntryText


(***************************************************************************)
(* SpecCodec: _format_entry is called on an entry and _parse_entry on the  *)
(* line it gave.  The entries: ids of two sections, counters of one to     *)
(* three digits, no marker, a project id, or a project id that holds "]"   *)
(* (create_project takes any text), and as content every text of one to    *)
(* three characters over a letter, the blank, the brackets and the colon,  *)
(* a tab, and a content that itself looks like a marker followed by "::".  *)
(***************************************************************************)
CodecIds ==
    { <<"s", "t", "r", "-", "0", "0", "0", "0", "1">>,
      <<"c", "a", "l", "-", "9", "9", "9", "9", "9">> }

CodecCounters == {0, 9, 10, 105}

CodecMarkers == { <<>>, <<"f", "i", "n">>, <<"a", "]">> }

CodecChars == {"a", " ", "[", "]", ":"}

MaxContentLen == 3

CodecContents ==
    UNION {[1..n -> CodecChars] : n \in 1..MaxContentLen}
        \cup { <<"\t", "a">>,
               <<"[", "a", "]", " ", ":", ":", " ", "a">> }

CodecEntries ==
    [id : CodecIds, helpful : CodecCounters, harmful : {0, 105},
     project_id : CodecMarkers, content : CodecContents]

CallFormatEntry(e) == [name |-> "_format_entry", entry |-> e]

InitCodec ==
    /\ \E e \in CodecEntries :
          op = [t \in Threads |-> IF t = 1 THEN CallFormatEntry(e) ELSE NoCall]
    /\ playbooks = FreshStore.playbooks
    /\ store0 = FreshStore.playbooks
    /\ registry = FreshStore.registry
    /\ reflections = [p \in Projects |-> <<>>]
    /\ lock = 0
    /\ pc = [t \in Threads |-> "idle"]
    /\ local = [t \in Threads |-> NoLocal]
    /\ result = [t \in Threads |-> NoResult]
    /\ calls = 0
    /\ unregistered = FALSE

\* _format_entry(id, helpful, harmful, content, project_marker): the line.
FormatEntry(t) ==
    /\ pc[t] = "idle"
    /\ op[t].name = "_format_entry"
    /\ local' = [local EXCEPT ![t] =
                    [new_id |-> NoId,
                     lines |-> <<_format_entry_text(op[t].entry.id, op[t].entry.helpful,
                                                    op[t].entry.harmful,
                                                    op[t].entry.content,
                                                    op[t].entry.project_id)>>]]
    /\ pc' = [pc EXCEPT ![t] = "formatted"]
    /\ calls' = calls + 1
    /\ UNCHANGED <<playbooks, registry, reflections, lock, op, result, store0,
                   unregistered>>

\* _parse_entry(line) on the line just formatted.
ParseEntry(t) ==
    /\ pc[t] = "formatted"
    /\ result' = [result EXCEPT ![t] =
                    [kind |-> "parsed", entry |-> _parse_entry_text(local[t].lines[1])]]
    /\ pc' = [pc EXCEPT ![t] = "done"]
    /\ calls' = calls + 1
    /\ UNCHANGED <<playbooks, registry, reflections, lock, op, local, store0,
                   unregistered>>

NextCodec == FormatEntry(1) \/ ParseEntry(1)

SpecCodec == InitCodec /\ [][NextCodec]_vars

(***************************************************************************)
(* C25.  Codec round trip.                                                 *)
(***************************************************************************)
Decoded(t) == pc[t] = "done" /\ result[t].kind = "parsed"

\* The entry decoded is the entry encoded, field by field.
SameEntry(t) ==
    /\ result[t].entry.ok
    /\ result[t].entry.id = op[t].entry.id
    /\ result[t].entry.helpful = op[t].entry.helpful
    /\ result[t].entry.harmful = op[t].entry.harmful
    /\ result[t].entry.project_id = op[t].entry.project_id
    /\ result[t].entry.content = op[t].entry.content

\* C25 as stated: for every valid entry (any non-empty one-line content,
\* with or without a project tag) _parse_entry(_format_entry(e)) yields the
\* same id, helpful, harmful, project tag and content.
C25_RoundTripAnyContent ==
    \A t \in Threads : Decoded(t) => SameEntry(t)

\* The content neither begins nor ends with white space.
Trimmed(content) ==
    /\ content # <<>>
    /\ content[1] \notin SpaceChars
    /\ content[Len(content)] \notin SpaceChars

\* C25, amended: the round trip holds for every entry whose content neither
\* begins nor ends with white space and whose project tag, when there is
\* one, holds no "]".
C25_RoundTrip ==
    \A t \in Threads :
        (/\ Decoded(t)
         /\ Trimmed(op[t].entry.content)
         /\ "]" \notin Range(op[t].entry.project_id)) => SameEntry(t)

\* A tagged entry whose content holds a blank, a bracket and "::" inside
\* came back as it was.
C25_Witness ==
    /\ Decoded(1)
    /\ op[1].entry.project_id = <<"f", "i", "n">>
    /\ op[1].entry.content = <<"[", "a", "]", " ", ":", ":", " ", "a">>
    /\ op[1].entry.helpful = 105
    /\ SameEntry(1)


(***************************************************************************)
(* SpecSim: _similarity is called on two contents, then on the same two    *)
(* in the other order.  The contents: every text of up to MaxSimLen        *)
(* characters over three letters and a capital.                            *)
(***************************************************************************)
SimChars == {"a", "b", "c", "A"}

MaxSimLen == 3

SimContents == UNION {[1..n -> SimChars] : n \in 0..MaxSimLen}

CallSimilarity(a, b) == [name |-> "_similarity", a |-> a, b |-> b]

InitSim ==
    /\ \E a, b \in SimContents :
          op = [t \in Threads |-> IF t = 1 THEN CallSimilarity(a, b) ELSE NoCall]
    /\ playbooks = FreshStore.playbooks
    /\ store0 = FreshStore.playbooks
    /\ registry = FreshStore.registry
    /\ reflections = [p \in Projects |-> <<>>]
    /\ lock = 0
    /\ pc = [t \in Threads |-> "idle"]
    /\ local = [t \in Threads |-> NoLocal]
    /\ result = [t \in Threads |-> NoResult]
    /\ calls = 0
    /\ unregistered = FALSE

\* _similarity(a, b)
Similarity(t) ==
    /\ pc[t] = "idle"
    /\ op[t].name = "_similarity"
    /\ result' = [result EXCEPT ![t] =
                    [kind |-> "ratio", ab |-> _similarity(op[t].a, op[t].b)]]
    /\ pc' = [pc EXCEPT ![t] = "swap"]
    /\ calls' = calls + 1
    /\ UNCHANGED <<playbooks, registry, reflections, lock, op, local, store0,
                   unregistered>>

\* _similarity(b, a)
SimilaritySwapped(t) ==
    /\ pc[t] = "swap"
    /\ result' = [result EXCEPT ![t] =
                    [kind |-> "ratios", ab |-> result[t].ab,
                     ba |-> _similarity(op[t].b, op[t].a)]]
    /\ pc' = [pc EXCEPT ![t] = "done"]
    /\ calls' = calls + 1
    /\ UNCHANGED <<playbooks, registry, reflections, lock, op, local, store0,
                   unregistered>>

NextSim == Similarity(1) \/ SimilaritySwapped(1)

SpecSim == InitSim /\ [][NextSim]_vars

(***************************************************************************)
(* C26.  Symmetry of the similarity score.                                 *)
(***************************************************************************)
\* C26: for all contents a and b, similarity(a, b) = similarity(b, a), the
\* ratios compared as fractions.
C26_SimilaritySymmetric ==
    \A t \in Threads :
        (pc[t] = "done" /\ result[t].kind = "ratios") =>
            result[t].ab.num * result[t].ba.den = result[t].ba.num * result[t].ab.den


(***************************************************************************)
(* C27.  get_section with a valid section name returns.                    *)
(***************************************************************************)
\* C27: a call of get_section with a valid section name returns: the text
\* of the section when the section holds an entry in the view of the
\* project, an error when it does not.
C27_GetSectionReturns ==
    \A t \in Threads :
        (/\ pc[t] # "idle"
         /\ op[t].name = "get_section"
         /\ op[t].section \in SectionNames)
            ~> (/\ pc[t] = "done"
                /\ result[t].kind \in {"section", "section_not_found"})


(***************************************************************************)
(* C28.  Reflection logs are append-only.                                  *)
(***************************************************************************)
\* Thread t completes a log_reflection in this step.
LogReflectionStep(t) ==
    /\ pc[t] = "body"
    /\ op[t].name = "log_reflection"
    /\ pc'[t] = "done"

\* The log after is the log before with n records more at its end.
ExtendedBy(before, after, n) ==
    /\ Len(after) = Len(before) + n
    /\ SubSeq(after, 1, Len(before)) = before

\* C28: log_reflection(.., p) appends exactly one record to the log of p
\* and changes no playbook file, not the registry and no other log; every
\* step leaves each log as it was or extended at its end, and no step other
\* than log_reflection changes a log.
C28_AppendOnly ==
    [][/\ \A t \in Threads :
             LogReflectionStep(t) =>
                 /\ ExtendedBy(reflections[op[t].project_id],
                               reflections'[op[t].project_id], 1)
                 /\ \A q \in Projects \ {op[t].project_id} :
                       reflections'[q] = reflections[q]
                 /\ playbooks' = playbooks
                 /\ registry' = registry
       /\ \A p \in Projects :
             \E n \in {0, 1} : ExtendedBy(reflections[p], reflections'[p], n)
       /\ reflections' # reflections => \E t \in Threads : LogReflectionStep(t)
      ]_vars

\* Two reflections were logged for one project and one for the other.
C28_Witness ==
    \E p, q \in Projects :
        /\ p # q
        /\ Len(reflections[p]) = 2
        /\ Len(reflections[q]) = 1
        /\ reflections[p][1].timestamp < reflections[p][2].timestamp


(***************************************************************************)
(* C29.  What update_counters leaves alone.                                *)
(***************************************************************************)
\* Thread t completes an update_counters that found its entry.
UpdateCountersStep(t) ==
    /\ pc[t] = "body"
    /\ op[t].name = "update_counters"
    /\ pc'[t] = "done"
    /\ result'[t].kind = "updated"

\* Line after is line before, but for the counters when it is an entry
\* with the id entry_id.
SameButCounters(before, after, entry_id) ==
    IF before.kind = "entry" /\ Id(before.pre, before.num) = entry_id
    THEN after = [before EXCEPT !.helpful = after.helpful, !.harmful = after.harmful]
    ELSE after = before

\* C29: a successful update_counters(id, dh, dm) changes one playbook file
\* at most, and in it only the counters of lines with that id: every
\* content, every other entry and every other line stay as they were, also
\* when the file holds more than one line with that id.
C29_UpdateCountersFrame ==
    [][\A t \in Threads :
          UpdateCountersStep(t) =>
              /\ Cardinality({p \in Projects : playbooks'[p] # playbooks[p]}) <= 1
              /\ \A p \in Projects :
                    /\ playbooks'[p].exists = playbooks[p].exists
                    /\ Len(playbooks'[p].lines) = Len(playbooks[p].lines)
                    /\ \A i \in DOMAIN playbooks[p].lines :
                          SameButCounters(playbooks[p].lines[i], playbooks'[p].lines[i],
                                          op[t].entry_id)
      ]_vars

\* The same on files that hold at most one line with the id.
C29_FrameSingleLine ==
    [][\A t \in Threads :
          (/\ UpdateCountersStep(t)
           /\ \A p \in Projects :
                 Cardinality({i \in DOMAIN playbooks[p].lines :
                                 UpdateMatches(playbooks[p].lines[i], op[t].entry_id)}) <= 1)
              => /\ Cardinality({p \in Projects : playbooks'[p] # playbooks[p]}) <= 1
                 /\ \A p \in Projects :
                       /\ playbooks'[p].exists = playbooks[p].exists
                       /\ Len(playbooks'[p].lines) = Len(playbooks[p].lines)
                       /\ \A i \in DOMAIN playbooks[p].lines :
                             SameButCounters(playbooks[p].lines[i], playbooks'[p].lines[i],
                                             op[t].entry_id)
      ]_vars


(***************************************************************************)
(* C30.  Policy B keeps every surviving entry.                             *)
(***************************************************************************)
\* The entry of line l stands in the rebuilt lines with the same id,
\* counters and content.
KeptAsIs(l, rebuilt) ==
    \E k \in DOMAIN rebuilt :
        /\ _parse_entry(rebuilt[k]).ok
        /\ _parse_entry(rebuilt[k]).id = _parse_entry(l).id
        /\ _parse_entry(rebuilt[k]).helpful = _parse_entry(l).helpful
        /\ _parse_entry(rebuilt[k]).harmful = _parse_entry(l).harmful
        /\ _parse_entry(rebuilt[k]).content = _parse_entry(l).content

\* The id of line l is in a duplicate group found in a section of the
\* input, and the rebuilt lines hold the merged entry of that group.
KeptMerged(l, lines, rebuilt, harmful_threshold) ==
    \E s \in Range(parse_playbook(lines)) :
        LET survivors == Survivors(s.entries, harmful_threshold)
        IN  \E g \in Range(find_duplicates(survivors)) :
                /\ _parse_entry(l).id \in g
                /\ \E k \in DOMAIN rebuilt :
                      /\ _parse_entry(rebuilt[k]).ok
                      /\ _parse_entry(rebuilt[k]).id \in g
                      /\ _parse_entry(rebuilt[k]).helpful =
                            merge_duplicates(survivors, g).helpful
                      /\ _parse_entry(rebuilt[k]).harmful =
                            merge_duplicates(survivors, g).harmful

\* C30: after a pass, every line of the input that is an entry by the entry
\* grammar (with or without the project marker) and is not pruned as
\* harmful is in the rebuilt playbook as it was, or stands in a duplicate
\* group whose merged entry is there.
C30_KeepsSurvivors ==
    \A t \in Threads :
        PassDone(t) =>
            \A i \in DOMAIN store0["global"].lines :
                LET l == store0["global"].lines[i]
                IN  (/\ _parse_entry(l).ok
                     /\ ~IsHarmful(_parse_entry(l), op[t].harmful_threshold))
                        => \/ KeptAsIs(l, result[t].lines)
                           \/ KeptMerged(l, store0["global"].lines, result[t].lines,
                                         op[t].harmful_threshold)

\* The same for the entry lines without a marker that stand below a header.
C30_KeepsPlainUnderHeader ==
    \A t \in Threads :
        PassDone(t) =>
            \A i \in DOMAIN store0["global"].lines :
                LET l == store0["global"].lines[i]
                IN  (/\ _parse_entry(l).ok
                     /\ _parse_entry(l).project_id = ""
                     /\ \E h \in 1..(i - 1) : IsAnyHeader(store0["global"].lines[h])
                     /\ ~IsHarmful(_parse_entry(l), op[t].harmful_threshold))
                        => \/ KeptAsIs(l, result[t].lines)
                           \/ KeptMerged(l, store0["global"].lines, result[t].lines,
                                         op[t].harmful_threshold)


(***************************************************************************)
(* C31.  Policy B grouping.                                                *)
(***************************************************************************)
\* The places, in a section's entries, of the entries a group stands for.
MemberPlaces(entries, group) == {k \in DOMAIN entries : entries[k].id \in group}

\* The first of the places.
SeedPlace(places) == CHOOSE k \in places : \A j \in places : k <= j

\* The entry stands in the entries with the same id, counters and content.
Holds(entries, e) == \E k \in DOMAIN entries : entries[k] = e

\* C31: after a pass, in every section each group merged has a seed, every
\* other entry merged into the group occurs later than the seed and has a
\* similarity of at least 0.85 to the seed, no entry is in two groups, and
\* an entry that is in no group is not merged: it is in the rebuilt section
\* as it was.
C31_GreedyGrouping ==
    \A t \in Threads :
        PassDone(t) =>
            LET before == parse_playbook(store0["global"].lines)
                after == parse_playbook(result[t].lines)
            IN  \A k \in DOMAIN before :
                    LET survivors == Survivors(before[k].entries, op[t].harmful_threshold)
                        groups == find_duplicates(survivors)
                        rebuilt == SectionEntries(after, before[k].name)
                        places(g) == MemberPlaces(survivors, groups[g])
                    IN  /\ \A g \in DOMAIN groups :
                              /\ Cardinality(places(g)) >= 2
                              /\ \A m \in places(g) \ {SeedPlace(places(g))} :
                                    LET sim == _similarity(
                                                  survivors[SeedPlace(places(g))].content,
                                                  survivors[m].content)
                                    IN  /\ m > SeedPlace(places(g))
                                        /\ 100 * sim.num >= 85 * sim.den
                        /\ \A g, h \in DOMAIN groups :
                              g # h => places(g) \cap places(h) = {}
                        /\ \A m \in DOMAIN survivors :
                              (\A g \in DOMAIN groups : m \notin places(g))
                                  => Holds(rebuilt, survivors[m])

\* The same on the playbooks where no section holds an id twice.
C31_GroupingUniqueIds ==
    (\A s \in Range(parse_playbook(store0["global"].lines)) : UniqueIds(s.entries))
        => C31_GreedyGrouping


(***************************************************************************)
(* C32.  Which member a merged entry keeps.                                *)
(***************************************************************************)
\* The first, in the order of the section, of the members with the highest
\* helpful.
FirstOfHighest(members) ==
    LET highest == {k \in DOMAIN members :
                       \A j \in DOMAIN members : members[j].helpful <= members[k].helpful}
    IN  members[CHOOSE k \in highest : \A j \in highest : k <= j]

\* The rebuilt section holds the merged entry of the members: the id and
\* the content of keep, the sums of the counters.
HoldsMergedOf(rebuilt, members, keep) ==
    \E e \in Range(rebuilt) :
        /\ e.id = keep.id
        /\ e.content = keep.content
        /\ e.helpful = Sum([i \in DOMAIN members |-> members[i].helpful])
        /\ e.harmful = Sum([i \in DOMAIN members |-> members[i].harmful])

\* C32: after a pass, the merged entry of every group carries the id and
\* the content of the member (an entry the merge folded in) with the
\* highest helpful before merging, the first such member in the section's
\* original order when several tie.
C32_KeepsFirstOfHighest ==
    \A t \in Threads :
        PassDone(t) =>
            LET before == parse_playbook(store0["global"].lines)
                after == parse_playbook(result[t].lines)
            IN  \A k \in DOMAIN before :
                    LET survivors == Survivors(before[k].entries, op[t].harmful_threshold)
                        groups == find_duplicates(survivors)
                        rebuilt == SectionEntries(after, before[k].name)
                    IN  \A g \in DOMAIN groups :
                            HoldsMergedOf(rebuilt, MembersOf(survivors, groups[g]),
                                          FirstOfHighest(MembersOf(survivors, groups[g])))

\* A group of three was merged whose second and third members tie on the
\* highest helpful, with different ids and contents; the second was kept.
C32_Witness ==
    /\ PassDone(1)
    /\ \E s \in Range(parse_playbook(store0["global"].lines)) :
          LET survivors == Survivors(s.entries, op[1].harmful_threshold)
          IN  /\ Len(survivors) = 3
              /\ \E g \in Range(find_duplicates(survivors)) :
                    /\ Len(MembersOf(survivors, g)) = 3
                    /\ survivors[1].helpful < survivors[2].helpful
                    /\ survivors[2].helpful = survivors[3].helpful
                    /\ survivors[2].id # survivors[3].id
                    /\ survivors[2].content # survivors[3].content
                    /\ HoldsMergedOf(SectionEntries(parse_playbook(result[1].lines), s.name),
                                     survivors, survivors[2])


(***************************************************************************)
(* C33.  Order of the entries of a rebuilt section.                        *)
(***************************************************************************)
\* The number of the group, in the order the groups were found, that holds
\* the id; 0 when the id is in none.
GroupOf(groups, id) ==
    IF \E g \in DOMAIN groups : id \in groups[g]
    THEN CHOOSE g \in DOMAIN groups : id \in groups[g]
    ELSE 0

\* The places in the input section an entry of the output comes from: the
\* places of its group's members, or the places of its id.
OriginPlaces(survivors, groups, e) ==
    IF GroupOf(groups, e.id) # 0
    THEN MemberPlaces(survivors, groups[GroupOf(groups, e.id)])
    ELSE {k \in DOMAIN survivors : survivors[k].id = e.id}

\* Entry a came before entry b in the input section.
CameBefore(survivors, groups, a, b) ==
    \E p \in OriginPlaces(survivors, groups, a), q \in OriginPlaces(survivors, groups, b) :
        p < q

\* C33 as stated: the entries of each rebuilt section are in non-increasing
\* order of helpful, and entries of equal helpful are in the order they had
\* in the input section, merged entries and untouched ones alike.
C33_SortedStableByInput ==
    \A t \in Threads :
        PassDone(t) =>
            LET before == parse_playbook(store0["global"].lines)
                after == parse_playbook(result[t].lines)
            IN  \A k \in DOMAIN before :
                    LET survivors == Survivors(before[k].entries, op[t].harmful_threshold)
                        groups == find_duplicates(survivors)
                        rebuilt == SectionEntries(after, before[k].name)
                    IN  \A i, j \in DOMAIN rebuilt :
                            i < j =>
                                /\ rebuilt[i].helpful >= rebuilt[j].helpful
                                /\ rebuilt[i].helpful = rebuilt[j].helpful =>
                                      CameBefore(survivors, groups, rebuilt[i], rebuilt[j])

\* C33, amended: the entries of each rebuilt section are in non-increasing
\* order of helpful; among entries of equal helpful the merged ones come
\* first, in the order their groups were found, then the untouched ones in
\* the order they had in the input section.
C33_SortedStable ==
    \A t \in Threads :
        PassDone(t) =>
            LET before == parse_playbook(store0["global"].lines)
                after == parse_playbook(result[t].lines)
            IN  \A k \in DOMAIN before :
                    LET survivors == Survivors(before[k].entries, op[t].harmful_threshold)
                        groups == find_duplicates(survivors)
                        rebuilt == SectionEntries(after, before[k].name)
                        group(i) == GroupOf(groups, rebuilt[i].id)
                    IN  \A i, j \in DOMAIN rebuilt :
                            i < j =>
                                /\ rebuilt[i].helpful >= rebuilt[j].helpful
                                /\ rebuilt[i].helpful = rebuilt[j].helpful =>
                                      \/ group(i) # 0 /\ group(j) = 0
                                      \/ group(i) # 0 /\ group(j) # 0 /\ group(i) < group(j)
                                      \/ /\ group(i) = 0
                                         /\ group(j) = 0
                                         /\ CameBefore(survivors, groups,
                                                       rebuilt[i], rebuilt[j])

\* Two merged entries and an untouched one, all of equal helpful, stand in
\* a rebuilt section: the merged ones first, in the order of their groups,
\* though the untouched entry came first in the input.
C33_Witness ==
    /\ PassDone(1)
    /\ \E s \in Range(parse_playbook(store0["global"].lines)) :
          LET survivors == Survivors(s.entries, op[1].harmful_threshold)
              groups == find_duplicates(survivors)
              rebuilt == SectionEntries(parse_playbook(result[1].lines), s.name)
          IN  /\ Len(groups) = 2
              /\ Len(rebuilt) = 3
              /\ rebuilt[1].helpful = rebuilt[3].helpful
              /\ GroupOf(groups, rebuilt[1].id) = 1
              /\ GroupOf(groups, rebuilt[2].id) = 2
              /\ rebuilt[3] = survivors[1]


(***************************************************************************)
(* C34.  The sections of the rebuilt playbook.                             *)
(***************************************************************************)
\* The name of the last header above line i, "" when there is none.
SectionAt(lines, i) ==
    LET above == {h \in 1..(i - 1) : IsAnyHeader(lines[h])}
    IN  IF above = {} THEN ""
        ELSE lines[CHOOSE h \in above : \A g \in above : g <= h].name

\* The names of the headers of the lines, in order.
HeaderNames(lines) ==
    LET headers == SelectSeq(lines, IsAnyHeader)
    IN  [k \in DOMAIN headers |-> headers[k].name]

\* The first header line of that name.
FirstHeaderPlace(lines, name) ==
    CHOOSE i \in DOMAIN lines :
        /\ IsHeaderOf(lines[i], name)
        /\ \A j \in 1..(i - 1) : ~IsHeaderOf(lines[j], name)

\* The entry lines parsed under that name, pruned ones left out.
CuratedPlaces(lines, name, harmful_threshold) ==
    {i \in DOMAIN lines :
        /\ MatchesEntryPattern(lines[i])
        /\ SectionAt(lines, i) = name
        /\ ~(lines[i].harmful > lines[i].helpful + harmful_threshold)}

\* The first entry line parsed under that name, pruned or not.
FirstEntryPlace(lines, name) ==
    CHOOSE i \in DOMAIN lines :
        /\ MatchesEntryPattern(lines[i]) /\ SectionAt(lines, i) = name
        /\ \A j \in 1..(i - 1) :
              ~(MatchesEntryPattern(lines[j]) /\ SectionAt(lines, j) = name)

\* The place of a name among the four sections, 0 for another name.
CanonicalPlace(name) ==
    IF name \in SectionNames THEN CHOOSE k \in DOMAIN SECTIONS : SECTIONS[k] = name
    ELSE 0

\* The output is made of sections only, each a header, its entries and a
\* blank line; the sections emitted are those with a curated entry, once
\* each, the four known ones first and in their fixed order.
SectionsEmitted(lines, out, harmful_threshold) ==
    LET names == HeaderNames(out)
    IN  /\ \A i \in DOMAIN out : out[i].kind \in {"header", "entry", "blank"}
        /\ \A i \in DOMAIN out :
              /\ out[i].kind = "header" => i < Len(out) /\ out[i + 1].kind = "entry"
              /\ out[i].kind = "entry" => i > 1 /\ i < Len(out) /\ out[i - 1].kind # "blank"
              /\ out[i].kind = "blank" => i = Len(out) \/ out[i + 1].kind = "header"
        /\ \A a, b \in DOMAIN names : names[a] = names[b] => a = b
        /\ Range(names) = {n \in Range(HeaderNames(lines)) :
                              CuratedPlaces(lines, n, harmful_threshold) # {}}
        /\ \A a, b \in DOMAIN names :
              a < b =>
                  /\ CanonicalPlace(names[b]) # 0 => CanonicalPlace(names[a]) # 0
                  /\ CanonicalPlace(names[b]) # 0 =>
                        CanonicalPlace(names[a]) < CanonicalPlace(names[b])

\* C34 as stated: the four sections in their fixed order, then every other
\* section name of the input in order of first encounter; a section is
\* emitted exactly when it has a curated entry; the output holds these
\* headers, entry lines and separating blank lines only.
C34_OrderOfFirstEncounter ==
    \A t \in Threads :
        PassDone(t) =>
            /\ SectionsEmitted(store0["global"].lines, result[t].lines,
                               op[t].harmful_threshold)
            /\ LET names == HeaderNames(result[t].lines)
               IN  \A a, b \in DOMAIN names :
                       (a < b /\ CanonicalPlace(names[a]) = 0) =>
                           FirstHeaderPlace(store0["global"].lines, names[a])
                               < FirstHeaderPlace(store0["global"].lines, names[b])

\* C34, amended: the other section names follow in the order in which each
\* first had an entry parsed under it.
C34_OrderOfFirstEntry ==
    \A t \in Threads :
        PassDone(t) =>
            /\ SectionsEmitted(store0["global"].lines, result[t].lines,
                               op[t].harmful_threshold)
            /\ LET names == HeaderNames(result[t].lines)
               IN  \A a, b \in DOMAIN names :
                       (a < b /\ CanonicalPlace(names[a]) = 0) =>
                           FirstEntryPlace(store0["global"].lines, names[a])
                               < FirstEntryPlace(store0["global"].lines, names[b])

\* A known section is emitted first though it stands third in the input,
\* then IDEAS and NOTES, the header of NOTES being the first of the input.
C34_Witness ==
    /\ PassDone(1)
    /\ HeaderNames(result[1].lines) = <<"DOMAIN KNOWLEDGE", "IDEAS", "NOTES">>
    /\ HeaderNames(store0["global"].lines)
          = <<"NOTES", "IDEAS", "DOMAIN KNOWLEDGE", "NOTES">>


(***************************************************************************)
(* SpecRace: the standalone pass runs (as thread 1, a process of its own)  *)
(* on the global playbook of a store that a server thread (thread 2) is    *)
(* working on.  The pass takes no guard: its two steps interleave freely   *)
(* with the steps of the server's calls.                                   *)
(***************************************************************************)
RaceCalls ==
    ConcCalls
    \cup {CallUpdateCounters(Id("str", 5), 1, 0),
          CallUpdateCounters(Id("str", 3), 0, 1),
          CallRemoveEntry(Id("str", 4))}

NextRace ==
    \/ PassRead(1)
    \/ PassWrite(1)
    \/ \E c \in RaceCalls : calls < MaxCalls /\ Call(2, c)
    \/ Step(2)
    \/ Return(2)

SpecRace == Init /\ [][NextRace]_vars

(***************************************************************************)
(* C35.  The pass against the server: lost updates.                        *)
(***************************************************************************)
\* The pass of thread t writes the file in this step.
PassWriteStep(t) ==
    /\ pc[t] = "rebuild"
    /\ op[t].name = "curate.py"
    /\ op[t].query = <<>>
    /\ pc'[t] = "done"

\* C35: the pass takes and releases no guard, and what it writes is the
\* curation of the text it read, whatever a server operation wrote to the
\* file after that read: the effect of an add_entry, update_counters or
\* remove_entry completed in between is overwritten.
C35_PassOverwrites ==
    [][\A t \in Threads :
          /\ (pc[t] = "idle" /\ op'[t].name = "curate.py") => lock' = lock
          /\ PassWriteStep(t) =>
                /\ lock' = lock
                /\ playbooks'["global"] =
                      File(curate_playbook(local[t].lines, op[t].harmful_threshold).lines)
      ]_vars

\* The ids of the entry lines.
IdsIn(lines) == {Id(lines[i].pre, lines[i].num) : i \in {j \in DOMAIN lines : lines[j].kind = "entry"}}

\* The server added an entry to the global playbook after the pass had
\* read it, the call returned, and the pass then wrote: the file no longer
\* holds the entry.
C35_Witness ==
    /\ PassDone(1)
    /\ op[1].query = <<>>
    /\ pc[2] = "done"
    /\ result[2].kind = "added"
    /\ op[2].project_id = "global"
    /\ result[2].id \notin IdsIn(local[1].lines)
    /\ playbooks["global"].lines = result[1].lines
    /\ result[2].id \notin IdsIn(playbooks["global"].lines)


(***************************************************************************)
(* C36.  Harmful entries after a pass.                                     *)
(***************************************************************************)
\* C36 as stated: after a pass with threshold t no entry of the rebuilt
\* playbook has harmful > helpful + t, merged entries included.
C36_NoHarmfulLeft ==
    \A t \in Threads :
        PassDone(t) =>
            \A s \in Range(parse_playbook(result[t].lines)) :
                \A e \in Range(s.entries) :
                    ~(e.harmful > e.helpful + op[t].harmful_threshold)

\* The number of entries an entry of the output was made of.
MergedFrom(survivors, groups, e) ==
    IF GroupOf(groups, e.id) = 0 THEN 1
    ELSE Len(MembersOf(survivors, groups[GroupOf(groups, e.id)]))

\* C36, amended: after a pass with threshold t an entry that was not
\* produced by merging has harmful <= helpful + t, and an entry merged
\* from n entries has harmful <= helpful + n * t.
C36_HarmfulBound ==
    \A t \in Threads :
        PassDone(t) =>
            LET before == parse_playbook(store0["global"].lines)
                after == parse_playbook(result[t].lines)
            IN  /\ \A s \in Range(after) : \E k \in DOMAIN before : before[k].name = s.name
                /\ \A k \in DOMAIN before :
                      LET survivors == Survivors(before[k].entries,
                                                 op[t].harmful_threshold)
                          groups == find_duplicates(survivors)
                      IN  \A e \in Range(SectionEntries(after, before[k].name)) :
                              e.harmful <= e.helpful
                                  + MergedFrom(survivors, groups, e) * op[t].harmful_threshold

\* A pass with threshold 3 left a merged entry of two members with
\* harmful = helpful + 6.
C36_Witness ==
    /\ PassDone(1)
    /\ op[1].harmful_threshold = 3
    /\ \E s \in Range(parse_playbook(store0["global"].lines)) :
          LET survivors == Survivors(s.entries, 3)
              groups == find_duplicates(survivors)
          IN  \E e \in Range(SectionEntries(parse_playbook(result[1].lines), s.name)) :
                  /\ MergedFrom(survivors, groups, e) = 2
                  /\ e.harmful = e.helpful + 6


(***************************************************************************)
(* SpecTwice: "python curate.py <playbook> --threshold N" run on a         *)
(* playbook file and then run again, with the same threshold, on the file  *)
(* it has written.                                                         *)
(***************************************************************************)
\* main run once more with the arguments of the run before: the file that
\* run has written is read.
PassAgain(t) ==
    /\ pc[t] = "done"
    /\ result[t].kind = "pass"
    /\ op[t].query = <<>>
    /\ calls < MaxCalls
    /\ playbooks["global"].exists
    /\ calls' = calls + 1
    /\ pc' = [pc EXCEPT ![t] = "rebuild"]
    /\ local' = [local EXCEPT ![t] =
                    [new_id |-> NoId, lines |-> playbooks["global"].lines]]
    /\ UNCHANGED <<playbooks, registry, reflections, lock, op, result, store0,
                   unregistered>>

NextTwice == PassRead(1) \/ PassWrite(1) \/ PassAgain(1)

SpecTwice == InitPass /\ [][NextTwice]_vars

(***************************************************************************)
(* C37.  A pass over the output of a pass.                                 *)
(***************************************************************************)
\* The run of t that has ended read the output of the run before it.
LaterPassDone(t) == PassDone(t) /\ calls >= 2

\* The pass of t removed nothing and merged nothing.
QuietPass(t) ==
    /\ result[t].total_removed_harmful = 0
    /\ result[t].total_merged_duplicates = 0

\* C37 as stated: Policy B is idempotent; curate_playbook applied to its own
\* output, with the same threshold, gives the same text again, and that
\* second pass removes nothing and merges nothing.
C37_Idempotent ==
    \A t \in Threads :
        LaterPassDone(t) =>
            /\ result[t].lines = local[t].lines
            /\ QuietPass(t)

\* C37, amended: curate_playbook applied to its own output, with the same
\* threshold, gives the same text again whenever that second pass removes
\* nothing and merges nothing.
C37_FixedWhenQuiet ==
    \A t \in Threads :
        (LaterPassDone(t) /\ QuietPass(t)) => result[t].lines = local[t].lines

\* A second pass has ended that removed nothing and merged nothing, on the
\* output of a first pass that merged entries and left more than one line
\* of entries.
C37_Witness ==
    /\ calls = 2
    /\ LaterPassDone(1)
    /\ QuietPass(1)
    /\ curate_playbook(store0["global"].lines,
                       op[1].harmful_threshold).total_merged_duplicates > 0
    /\ result[1].final_count >= 2
    /\ result[1].lines = local[1].lines

========================================================================
